---- MODULE Spec2Model ----
(***************************************************************************)
(* Compliance analysis engine of the DPA compliance checker.               *)
(*                                                                         *)
(* DPAComplianceChecker.analyze_document either runs the rule-based        *)
(* (traditional) analysis, or the AI-enhanced analysis: the knowledge-base *)
(* baseline of EnhancedDPAKnowledgeV2.get_comprehensive_analysis merged    *)
(* with the external model's result by MistralDPAAnalyzer._combine_analyses*)
(* and, when that branch raises, the rule-based analysis as the fallback.  *)
(*                                                                         *)
(* Python strings that the code searches (the document text, section       *)
(* labels, violation names) are sequences of one-character strings, so     *)
(* that lower(), the `in` substring test and the \b...\b regular           *)
(* expressions are computed character by character.                        *)
(***************************************************************************)
EXTENDS Integers, Sequences, FiniteSets, TLC

VARIABLES
    use_ai_enhancement,  \* DPAComplianceChecker.use_ai_enhancement
    pc,                  \* "idle": no call in progress; "returned": analyze_document has returned
    request,             \* the arguments and collaborator outcomes of the last analyze_document call
    report,              \* the report the last analyze_document call returned
    ai_calls,            \* external-model attempts made by the last analyze_document call
    reconciled_before,   \* an earlier call returned a report made by _combine_analyses
    dup_args,            \* arguments of the last direct call of _is_duplicate_violation
    dup_result,          \* its return value
    kb_file,             \* data/output/enhanced_dpa_knowledge_v2.json on disk
    sections,            \* EnhancedDPAKnowledgeV2.sections
    definitions,         \* EnhancedDPAKnowledgeV2.definitions
    penalties,           \* EnhancedDPAKnowledgeV2.penalties
    search_index,        \* EnhancedDPAKnowledgeV2.search_index
    fn_args,             \* arguments of the last direct call of another function
    fn_result            \* its outcome: the value returned, or the exception raised

\* the fields of the knowledge base object
kb_vars == <<sections, definitions, penalties, search_index>>

\* the record of a direct call
fn_vars == <<fn_args, fn_result>>

vars ==
    <<use_ai_enhancement, pc, request, report, ai_calls, reconciled_before,
      dup_args, dup_result, kb_file, kb_vars, fn_vars>>

-----------------------------------------------------------------------------
(* Bounds of the model.                                                    *)

MaxItems == 11

MaxSensitive == 6

MaxAiViolations == 2

MaxBaseline == 2

\* detected items of a document analysed with AI enhancement on; the
\* knowledge-base baseline reads of the item list only whether it is empty
MaxAiItems == 2

\* detected items of an image document
MaxImageItems == 1

-----------------------------------------------------------------------------
(* Thresholds of the program.                                              *)

\* `total_pii_count > 10`
ExcessiveThreshold == 10

\* `sensitive_count > 5`
CriticalSensitiveThreshold == 5

-----------------------------------------------------------------------------
(* Python string primitives.                                               *)

UpperLetters ==
    <<"A","B","C","D","E","F","G","H","I","J","K","L","M",
      "N","O","P","Q","R","S","T","U","V","W","X","Y","Z">>

LowerLetters ==
    <<"a","b","c","d","e","f","g","h","i","j","k","l","m",
      "n","o","p","q","r","s","t","u","v","w","x","y","z">>

Digits == {"0","1","2","3","4","5","6","7","8","9"}

Punctuation == {" ", "_", "-", ",", ";", ":", "."}

\* the characters that occur in the strings of the model
Alphabet ==
    {UpperLetters[i] : i \in 1..26} \cup {LowerLetters[i] : i \in 1..26}
    \cup Digits \cup Punctuation

\* str.lower() on one character, tabulated over the alphabet
LowerCharOf ==
    [c \in Alphabet |->
        IF \E i \in 1..26 : UpperLetters[i] = c
        THEN LowerLetters[CHOOSE i \in 1..26 : UpperLetters[i] = c]
        ELSE c]

LowerChar(c) == LowerCharOf[c]

RECURSIVE LowerFrom(_, _)
LowerFrom(str, i) ==
    IF i > Len(str) THEN << >> ELSE <<LowerChar(str[i])>> \o LowerFrom(str, i + 1)

\* str.lower()
Lower(str) == LowerFrom(str, 1)

\* the regular expression class \w
IsWordChar(c) == c \in (Alphabet \ Punctuation) \cup {"_"}

\* needle in hay
Contains(hay, needle) ==
    \E i \in 0..(Len(hay) - Len(needle)) :
        \A j \in 1..Len(needle) : hay[i + j] = needle[j]

\* r"\bword\b" matches at offset i (0-based) of text; word and text are in
\* lower case, and every pattern of the program starts and ends with a word
\* character.
MatchesAt(word, text, i) ==
    /\ i + Len(word) <= Len(text)
    /\ \A j \in 1..Len(word) : text[i + j] = word[j]
    /\ i > 0 => ~IsWordChar(text[i])
    /\ i + Len(word) < Len(text) => ~IsWordChar(text[i + Len(word) + 1])

\* re.search(r"\bword\b", text, re.IGNORECASE): the patterns are lower-case
\* literals, so ignoring case is matching the lower-cased text
RegexSearch(word, text) ==
    LET lowered == Lower(text)
    IN  \E i \in 0..(Len(text) - Len(word)) : MatchesAt(word, lowered, i)

RECURSIVE FindIterFrom(_, _, _)
\* the start offsets of the non-overlapping matches of r"\bword\b" in the
\* lower-cased text, scanning left to right from offset i
FindIterFrom(word, text, i) ==
    IF i + Len(word) > Len(text) THEN << >>
    ELSE IF MatchesAt(word, text, i)
         THEN <<i>> \o FindIterFrom(word, text, i + Len(word))
         ELSE FindIterFrom(word, text, i + 1)

\* re.finditer(r"\bword\b", text, re.IGNORECASE)
FindIter(word, text) == FindIterFrom(word, Lower(text), 0)

\* dict.get(key, default)
Get(dict, key, default) == IF key \in DOMAIN dict THEN dict[key] ELSE default

\* str[:n]
Prefix(str, n) == SubSeq(str, 1, IF Len(str) < n THEN Len(str) ELSE n)

\* the offset (0-based) of the first occurrence of needle in hay at or after
\* offset i, or -1: str.find
RECURSIVE FindFrom(_, _, _)
FindFrom(hay, needle, i) ==
    IF i + Len(needle) > Len(hay) THEN -1
    ELSE IF \A j \in 1..Len(needle) : hay[i + j] = needle[j] THEN i
    ELSE FindFrom(hay, needle, i + 1)

\* the number of non-overlapping occurrences of a non-empty needle in hay at
\* or after offset i
RECURSIVE CountFrom(_, _, _)
CountFrom(hay, needle, i) ==
    LET at == FindFrom(hay, needle, i)
    IN  IF at < 0 THEN 0 ELSE 1 + CountFrom(hay, needle, at + Len(needle))

\* str.count(needle); the empty string occurs between any two characters
Count(hay, needle) ==
    IF needle = << >> THEN Len(hay) + 1 ELSE CountFrom(hay, needle, 0)

\* str.split(sep)[0]
SplitFirst(str, sep) ==
    LET at == FindFrom(str, sep, 0)
    IN  IF at < 0 THEN str ELSE SubSeq(str, 1, at)

Ellipsis == <<".",".",".">>

DigitChars == <<"0","1","2","3","4","5","6","7","8","9">>

\* the decimal digits of a natural number
RECURSIVE IntToStr(_)
IntToStr(n) ==
    IF n < Len(DigitChars) THEN <<DigitChars[n + 1]>>
    ELSE IntToStr(n \div Len(DigitChars)) \o <<DigitChars[(n % Len(DigitChars)) + 1]>>

\* A Python int and a Python str as arguments of the same parameter.
PyInt(n) == [py |-> "int", v |-> n]

PyStr(str) == [py |-> "str", v |-> str]

\* str(x)
Str(x) == IF x.py = "int" THEN IntToStr(x.v) ELSE x.v

\* A Python dict whose keys are not fixed by the program is the sequence of
\* its items, [key, value], in insertion order.
HasKey(items, key) == \E i \in 1..Len(items) : items[i].key = key

\* dict.get(key, default) on such a dict
ItemsGet(items, key, default) ==
    IF HasKey(items, key)
    THEN items[CHOOSE i \in 1..Len(items) : items[i].key = key].value
    ELSE default

\* {}
EmptyDict == << >>

\* `not d` for a dict d
IsEmptyDict(d) == DOMAIN d = {}

-----------------------------------------------------------------------------
(* Literals of the program.                                                *)

consent_patterns ==
    << <<"c","o","n","s","e","n","t">>,
       <<"a","g","r","e","e">>,
       <<"a","u","t","h","o","r","i","z","e">>,
       <<"p","e","r","m","i","t">>,
       <<"a","l","l","o","w">>,
       <<"a","p","p","r","o","v","e">>,
       <<"a","c","c","e","p","t">>,
       <<"p","a","y","a","g">>,
       <<"s","a","n","g","-","a","y","o","n">>,
       <<"p","a","h","i","n","t","u","l","o","t">> >>

purpose_patterns ==
    << <<"p","u","r","p","o","s","e">>,
       <<"i","n","t","e","n","d","e","d"," ","f","o","r">>,
       <<"u","s","e","d"," ","f","o","r">>,
       <<"p","r","o","c","e","s","s","e","d"," ","f","o","r">>,
       <<"l","a","y","u","n","i","n">>,
       <<"g","a","g","a","m","i","t","i","n">> >>

unencrypted_patterns ==
    << <<"u","n","e","n","c","r","y","p","t","e","d">>,
       <<"p","l","a","i","n"," ","t","e","x","t">>,
       <<"n","o"," ","e","n","c","r","y","p","t","i","o","n">>,
       <<"u","n","s","e","c","u","r","e","d">>,
       <<"n","o"," ","p","a","s","s","w","o","r","d">>,
       <<"n","o"," ","s","e","c","u","r","i","t","y">> >>

consent_keywords ==
    << <<"c","o","n","s","e","n","t">>,
       <<"a","g","r","e","e">>,
       <<"p","e","r","m","i","s","s","i","o","n">>,
       <<"a","u","t","h","o","r","i","z","e">>,
       <<"a","p","p","r","o","v","a","l">>,
       <<"o","p","t","-","i","n">>,
       <<"a","c","c","e","p","t">>,
       <<"a","c","k","n","o","w","l","e","d","g","e">>,
       <<"v","o","l","u","n","t","a","r","y">> >>

explicit_keywords ==
    << <<"e","x","p","l","i","c","i","t"," ","c","o","n","s","e","n","t">>,
       <<"s","p","e","c","i","f","i","c"," ","c","o","n","s","e","n","t">>,
       <<"e","x","p","r","e","s","s"," ","c","o","n","s","e","n","t">>,
       <<"w","r","i","t","t","e","n"," ","c","o","n","s","e","n","t">>,
       <<"i","n","f","o","r","m","e","d"," ","c","o","n","s","e","n","t">>,
       <<"c","l","e","a","r"," ","c","o","n","s","e","n","t">> >>

transparency_keywords ==
    << <<"p","u","r","p","o","s","e">>,
       <<"n","o","t","i","f","i","c","a","t","i","o","n">>,
       <<"i","n","f","o","r","m">>,
       <<"d","i","s","c","l","o","s","e">>,
       <<"e","x","p","l","a","i","n">>,
       <<"p","r","i","v","a","c","y"," ","p","o","l","i","c","y">>,
       <<"d","a","t","a"," ","u","s","e">>,
       <<"p","r","o","c","e","s","s","i","n","g"," ","p","u","r","p","o","s","e">> >>

security_keywords ==
    << <<"s","e","c","u","r","i","t","y">>,
       <<"e","n","c","r","y","p","t","i","o","n">>,
       <<"p","r","o","t","e","c","t","i","o","n">>,
       <<"s","a","f","e","g","u","a","r","d">>,
       <<"s","e","c","u","r","e">>,
       <<"c","o","n","f","i","d","e","n","t","i","a","l">>,
       <<"a","c","c","e","s","s"," ","c","o","n","t","r","o","l">>,
       <<"a","u","t","h","e","n","t","i","c","a","t","i","o","n">>,
       <<"f","i","r","e","w","a","l","l">> >>

Section12 == <<"S","e","c","t","i","o","n"," ","1","2">>

Section13 == <<"S","e","c","t","i","o","n"," ","1","3">>

Section11 == <<"S","e","c","t","i","o","n"," ","1","1">>

Section20 == <<"S","e","c","t","i","o","n"," ","2","0">>

unauthorized_processing == <<"u","n","a","u","t","h","o","r","i","z","e","d","_","p","r","o","c","e","s","s","i","n","g">>

inadequate_spi_protection == <<"i","n","a","d","e","q","u","a","t","e","_","s","p","i","_","p","r","o","t","e","c","t","i","o","n">>

lack_of_transparency == <<"l","a","c","k","_","o","f","_","t","r","a","n","s","p","a","r","e","n","c","y">>

excessive_processing == <<"e","x","c","e","s","s","i","v","e","_","p","r","o","c","e","s","s","i","n","g">>

inadequate_security == <<"i","n","a","d","e","q","u","a","t","e","_","s","e","c","u","r","i","t","y">>

KbSection12 == <<"1","2">>

KbSection13 == <<"1","3">>

KbSection16 == <<"1","6">>

KbSection20 == <<"2","0">>

ProcessingWithoutConsent == <<"P","r","o","c","e","s","s","i","n","g"," ","w","i","t","h","o","u","t"," ","c","o","n","s","e","n","t">>

SensitiveWithoutExplicitConsent == <<"P","r","o","c","e","s","s","i","n","g"," ","s","e","n","s","i","t","i","v","e"," ","i","n","f","o","r","m","a","t","i","o","n"," ","w","i","t","h","o","u","t"," ","e","x","p","l","i","c","i","t"," ","c","o","n","s","e","n","t">>

LackOfTransparency == <<"L","a","c","k"," ","o","f"," ","t","r","a","n","s","p","a","r","e","n","c","y"," ","i","n"," ","d","a","t","a"," ","p","r","o","c","e","s","s","i","n","g">>

InadequateSecurityMeasures == <<"I","n","a","d","e","q","u","a","t","e"," ","s","e","c","u","r","i","t","y"," ","m","e","a","s","u","r","e","s">>

AiDetected == <<"A","I","-","D","e","t","e","c","t","e","d">>

AiDetectedViolation == <<"A","I","-","D","e","t","e","c","t","e","d"," ","V","i","o","l","a","t","i","o","n">>

ai_detected == <<"a","i","_","d","e","t","e","c","t","e","d">>

-----------------------------------------------------------------------------
(* Sample documents.                                                       *)

\* ""
TextEmpty == <<>>

\* "I Consent"
TextConsent == <<"I"," ","C","o","n","s","e","n","t">>

\* "consented"
TextConsented == <<"c","o","n","s","e","n","t","e","d">>

\* "Purpose: billing"
TextPurpose == <<"P","u","r","p","o","s","e",":"," ","b","i","l","l","i","n","g">>

\* "I agree; used for billing"
TextConsentPurpose == <<"I"," ","a","g","r","e","e",";"," ","u","s","e","d"," ","f","o","r"," ","b","i","l","l","i","n","g">>

\* "data is unencrypted"
TextUnencrypted == <<"d","a","t","a"," ","i","s"," ","u","n","e","n","c","r","y","p","t","e","d">>

\* "Unencrypted, no password"
TextTwoInsecure == <<"U","n","e","n","c","r","y","p","t","e","d",","," ","n","o"," ","p","a","s","s","w","o","r","d">>

\* "unsecured"
TextUnsecured == <<"u","n","s","e","c","u","r","e","d">>

\* "I consent; purpose: audit; secure"
TextAllGood == <<"I"," ","c","o","n","s","e","n","t",";"," ","p","u","r","p","o","s","e",":"," ","a","u","d","i","t",";"," ","s","e","c","u","r","e">>

\* "I agree; purpose: audit; plain text"
TextGoodButPlain == <<"I"," ","a","g","r","e","e",";"," ","p","u","r","p","o","s","e",":"," ","a","u","d","i","t",";"," ","p","l","a","i","n"," ","t","e","x","t">>

DocumentTexts ==
    {TextEmpty,
     TextConsent,
     TextConsented,
     TextPurpose,
     TextConsentPurpose,
     TextUnencrypted,
     TextTwoInsecure,
     TextUnsecured,
     TextAllGood,
     TextGoodButPlain}

-----------------------------------------------------------------------------
(* Recommendation actions.                                                 *)

ObtainProperConsent == <<"O","b","t","a","i","n"," ","p","r","o","p","e","r"," ","c","o","n","s","e","n","t">>

EnhanceSpiProtection == <<"E","n","h","a","n","c","e"," ","S","P","I"," ","p","r","o","t","e","c","t","i","o","n">>

AddPurposeStatements == <<"A","d","d"," ","p","u","r","p","o","s","e"," ","s","t","a","t","e","m","e","n","t","s">>

ReviewDataMinimization == <<"R","e","v","i","e","w"," ","d","a","t","a"," ","m","i","n","i","m","i","z","a","t","i","o","n">>

ImplementSecurityMeasures == <<"I","m","p","l","e","m","e","n","t"," ","s","e","c","u","r","i","t","y"," ","m","e","a","s","u","r","e","s">>

ConductPrivacyImpactAssessment == <<"C","o","n","d","u","c","t"," ","p","r","i","v","a","c","y"," ","i","m","p","a","c","t"," ","a","s","s","e","s","s","m","e","n","t">>

KbImplementConsent == <<"I","m","p","l","e","m","e","n","t"," ","p","r","o","p","e","r"," ","c","o","n","s","e","n","t"," ","m","e","c","h","a","n","i","s","m","s">>

KbEnhanceTransparency == <<"E","n","h","a","n","c","e"," ","t","r","a","n","s","p","a","r","e","n","c","y"," ","a","n","d"," ","d","a","t","a"," ","s","u","b","j","e","c","t"," ","n","o","t","i","f","i","c","a","t","i","o","n","s">>

KbImplementSecurity == <<"I","m","p","l","e","m","e","n","t"," ","c","o","m","p","r","e","h","e","n","s","i","v","e"," ","s","e","c","u","r","i","t","y"," ","m","e","a","s","u","r","e","s">>

KbConductAssessment == <<"C","o","n","d","u","c","t"," ","d","a","t","a"," ","p","r","o","t","e","c","t","i","o","n"," ","i","m","p","a","c","t"," ","a","s","s","e","s","s","m","e","n","t">>

-----------------------------------------------------------------------------
(* EnhancedPIIDetector (pii_detector.py).                                  *)

sensitive_entities == {"HEALTH_INFO", "RELIGIOUS_INFO", "FINANCIAL_INFO"}

ph_entities == {"PH_TIN", "PH_SSS", "PH_PHILHEALTH", "PH_UMID", "PH_PHONE"}

\* the entity types categorize_pii lists as sensitive
categorize_sensitive_types ==
    {"HEALTH_INFO", "RELIGIOUS_INFO", "FINANCIAL_INFO", "PH_TIN", "PH_SSS", "PH_PHILHEALTH"}

RegularTypes == <<"PERSON", "EMAIL_ADDRESS">>

SensitiveTypes == <<"HEALTH_INFO", "PH_UMID", "PH_TIN">>

\* What the entity analyzer (self.analyzer.analyze) reports for a document:
\* nr results of regular entity types followed by ns results of sensitive ones.
AnalyzerResults(nr, ns) ==
    [i \in 1..(nr + ns) |->
        [entity_type |-> IF i <= nr
                         THEN RegularTypes[((i - 1) % Len(RegularTypes)) + 1]
                         ELSE SensitiveTypes[((i - nr - 1) % Len(SensitiveTypes)) + 1],
         start |-> i]]

\* detect_pii: formats the analyzer results; the snippet text[start:end] is
\* identified by its offset.
detect_pii(results) ==
    [i \in 1..Len(results) |->
        [entity_type |-> results[i].entity_type,
         text |-> results[i].start,
         start |-> results[i].start,
         is_sensitive |-> results[i].entity_type \in (sensitive_entities \cup ph_entities)]]

\* an item taken as sensitive on its flag alone
IsFlaggedPii(pii) == pii.is_sensitive

IsSensitivePii(pii) ==
    pii.is_sensitive \/ pii.entity_type \in categorize_sensitive_types

IsRegularPii(pii) == ~IsSensitivePii(pii)

categorize_pii(pii_results) ==
    LET sensitive_pii == SelectSeq(pii_results, IsSensitivePii)
        regular_pii == SelectSeq(pii_results, IsRegularPii)
    IN  [regular_pii |-> regular_pii,
         sensitive_pii |-> sensitive_pii,
         total_pii_count |-> Len(pii_results),
         sensitive_count |-> Len(sensitive_pii),
         regular_count |-> Len(regular_pii)]

RECURSIVE FindAllPatterns(_, _, _)
\* the loop `for pattern in patterns: for match in re.finditer(pattern, text)`
FindAllPatterns(patterns, text, k) ==
    IF k > Len(patterns) THEN << >>
    ELSE LET starts == FindIter(patterns[k], text)
         IN  [m \in 1..Len(starts) |->
                 [pattern |-> patterns[k],
                  start |-> starts[m],
                  end |-> starts[m] + Len(patterns[k])]]
             \o FindAllPatterns(patterns, text, k + 1)

\* The text-scanning functions are tabulated over the sample documents, so
\* that each document is scanned once.
ConsentIndicatorsOf ==
    [text \in DocumentTexts |-> FindAllPatterns(consent_patterns, text, 1)]

PurposeStatementsOf ==
    [text \in DocumentTexts |-> FindAllPatterns(purpose_patterns, text, 1)]

detect_consent_indicators(text) == ConsentIndicatorsOf[text]

detect_purpose_statements(text) == PurposeStatementsOf[text]

-----------------------------------------------------------------------------
(* Knowledge base: data and lookups (enhanced_dpa_knowledge_v2.py).        *)
(* Of the fields load_knowledge_base fills, the model keeps sections,      *)
(* definitions, penalties and search_index; the others are filled the same *)
(* way and read only by getters that return them whole.                    *)

\* `[:100]` of _get_section_summary
SummaryLength == 100

\* `[:200]` of dpa_reference
DpaReferenceLength == 200

\* `limit=10` of search_content
DefaultLimit == 10

Key11 == <<"1","1">>

Key12 == <<"1","2">>

Key13 == <<"1","3">>

Key20 == <<"2","0">>

Key21 == <<"2","1">>

Key25 == <<"2","5">>

Key99 == <<"9","9">>

Content11 == <<"P","r","o","c","e","s","s","i","n","g"," ","s","h","a","l","l"," ","b","e"," ","t","r","a","n","s","p","a","r","e","n","t","."," ","T","h","e"," ","p","u","r","p","o","s","e"," ","o","f"," ","p","r","o","c","e","s","s","i","n","g"," ","i","s"," ","d","e","c","l","a","r","e","d">>

Content12 == <<"C","o","n","s","e","n","t"," ","i","s"," ","r","e","q","u","i","r","e","d","."," ","C","o","n","s","e","n","t"," ","m","u","s","t"," ","b","e"," ","r","e","c","o","r","d","e","d">>

Content13 == <<"S","e","n","s","i","t","i","v","e"," ","d","a","t","a"," ","n","e","e","d","s"," ","e","x","p","l","i","c","i","t"," ","c","o","n","s","e","n","t">>

Content20 == <<"S","e","c","u","r","i","t","y"," ","m","e","a","s","u","r","e","s"," ","p","r","o","t","e","c","t"," ","p","e","r","s","o","n","a","l"," ","d","a","t","a">>

\* "sections" of a knowledge base file: section 20 has no title, section 21
\* no content, and there is no section 16
SampleSections ==
    <<[key |-> Key11, value |-> [title |-> "General Data Privacy Principles",
                                 content |-> Content11]],
      [key |-> Key12, value |-> [title |-> "Criteria for Lawful Processing of Personal Information",
                                 content |-> Content12]],
      [key |-> Key13, value |-> [title |-> "Sensitive Personal Information and Privileged Information",
                                 content |-> Content13]],
      [key |-> Key20, value |-> [content |-> Content20]],
      [key |-> Key21, value |-> [title |-> "Principle of Accountability"]]>>

TermPersonalInformation == <<"p","e","r","s","o","n","a","l"," ","i","n","f","o","r","m","a","t","i","o","n">>

TermSensitive == <<"s","e","n","s","i","t","i","v","e"," ","p","e","r","s","o","n","a","l"," ","i","n","f","o","r","m","a","t","i","o","n">>

TermConsent == <<"c","o","n","s","e","n","t">>

TermProcessing == <<"p","r","o","c","e","s","s","i","n","g">>

\* "definitions" of a knowledge base file, keyed by the lower-case term
SampleDefinitions ==
    <<[key |-> TermPersonalInformation,
       value |-> [term |-> "Personal information",
                  definition |-> "any information from which the identity of an individual is apparent",
                  section |-> "3"]],
      [key |-> TermSensitive,
       value |-> [term |-> "Sensitive personal information",
                  definition |-> "personal information about race, health, education or government identifiers",
                  section |-> "3"]],
      [key |-> TermConsent,
       value |-> [term |-> "Consent",
                  definition |-> "any freely given, specific, informed indication of will",
                  section |-> "3"]],
      [key |-> TermProcessing,
       value |-> [term |-> "Processing",
                  definition |-> "any operation performed upon personal information",
                  section |-> "3"]]>>

\* "penalties" of a knowledge base file
SamplePenalties ==
    <<[key |-> Key25,
       value |-> [title |-> "Unauthorized Processing",
                  fines |-> <<"500,000", "2,000,000">>,
                  imprisonment |-> <<"1 year", "3 years">>]]>>

KeywordSecurity == <<"s","e","c","u","r","i","t","y">>

KeywordConsentUpper == <<"C","o","n","s","e","n","t">>

KeywordData == <<"d","a","t","a">>

KeywordSensitive == <<"s","e","n","s","i","t","i","v","e">>

KeywordAbsent == <<"b","l","o","c","k","c","h","a","i","n">>

\* "search_index" of a knowledge base file: token -> entries
SampleSearchIndex ==
    <<[key |-> TermConsent,
       value |-> <<[type |-> "definition", term |-> "Consent",
                    definition |-> "any freely given, specific, informed indication of will"],
                   [type |-> "section", section |-> Key13,
                    title |-> "Sensitive Personal Information and Privileged Information",
                    relevance |-> 3]>>],
      [key |-> KeywordSecurity,
       value |-> <<[type |-> "section", section |-> Key20, title |-> ""]>>]>>

\* the JSON object of a complete knowledge base file
SampleKnowledgeBase ==
    [sections |-> SampleSections,
     definitions |-> SampleDefinitions,
     penalties |-> SamplePenalties,
     search_index |-> SampleSearchIndex]

\* None
None == [py |-> "None"]

\* self.sections.get(str(section_number), {})
get_section(section_number) == ItemsGet(sections, Str(section_number), EmptyDict)

RECURSIVE DefinitionLoopLast(_, _)
\* the loop going on after a match, so that the last matching key wins
DefinitionLoopLast(term_lower, k) ==
    IF k > Len(definitions) THEN None
    ELSE LET later == DefinitionLoopLast(term_lower, k + 1)
         IN  IF later # None THEN later
             ELSE IF Contains(definitions[k].key, term_lower)
                     \/ Contains(term_lower, definitions[k].key)
                  THEN definitions[k].value
                  ELSE None

RECURSIVE DefinitionLoop(_, _)
\* `for key, definition in self.definitions.items(): if ...: return definition`
DefinitionLoop(term_lower, k) ==
    IF k > Len(definitions) THEN None
    ELSE IF Contains(definitions[k].key, term_lower) \/ Contains(term_lower, definitions[k].key)
         THEN definitions[k].value
         ELSE DefinitionLoop(term_lower, k + 1)

get_definition(term) == DefinitionLoop(Lower(term), 1)

\* self.penalties.get(str(section_number), {})
get_penalty_info(section_number) == ItemsGet(penalties, Str(section_number), EmptyDict)

RECURSIVE SectionMatches(_, _)
\* `for section_num, section_data in self.sections.items(): if keyword_lower in ...`
SectionMatches(keyword_lower, k) ==
    IF k > Len(sections) THEN << >>
    ELSE LET section_data == sections[k].value
             content_lower == Lower(Get(section_data, "content", << >>))
         IN  (IF Contains(content_lower, keyword_lower)
              THEN <<[type |-> "section_content",
                      section |-> sections[k].key,
                      title |-> Get(section_data, "title", ""),
                      relevance |-> Count(content_lower, keyword_lower)]>>
              ELSE << >>)
             \o SectionMatches(keyword_lower, k + 1)

\* x.get("relevance", 1)
Relevance(x) == Get(x, "relevance", 1)

\* one step of a stable sort in descending order: x goes behind the entries
\* that are at least as relevant
InsertByRelevance(sorted, x) ==
    LET at == Cardinality({i \in 1..Len(sorted) : Relevance(sorted[i]) >= Relevance(x)})
    IN  SubSeq(sorted, 1, at) \o <<x>> \o SubSeq(sorted, at + 1, Len(sorted))

RECURSIVE SortByRelevance(_, _, _)
\* results.sort(key=lambda x: x.get("relevance", 1), reverse=True)
SortByRelevance(results, k, sorted) ==
    IF k > Len(results) THEN sorted
    ELSE SortByRelevance(results, k + 1, InsertByRelevance(sorted, results[k]))

search_content(keyword, limit) ==
    LET keyword_lower == Lower(keyword)
        indexed == IF HasKey(search_index, keyword_lower)
                   THEN Prefix(ItemsGet(search_index, keyword_lower, << >>), limit)
                   ELSE << >>
        results == IF Len(indexed) < limit
                   THEN indexed \o SectionMatches(keyword_lower, 1)
                   ELSE indexed
    IN  Prefix(SortByRelevance(results, 1, << >>), limit)

NotAvailable == <<"S","e","c","t","i","o","n"," ","c","o","n","t","e","n","t"," ","n","o","t"," ","a","v","a","i","l","a","b","l","e">>

SentenceEnd == <<".", " ">>

\* DPAComplianceChecker._get_section_summary
_get_section_summary(section_data) ==
    IF IsEmptyDict(section_data) THEN NotAvailable
    ELSE Prefix(SplitFirst(Get(section_data, "content", << >>), SentenceEnd), SummaryLength)
         \o Ellipsis

\* section.get("content", "")[:200] + "..."
DpaReference(section_data) ==
    Prefix(Get(section_data, "content", << >>), DpaReferenceLength) \o Ellipsis

-----------------------------------------------------------------------------
(* Rule-based analysis (dpa_compliance_checker.py).                        *)

\* list[:n]
Head5(list) == SubSeq(list, 1, IF Len(list) < 5 THEN Len(list) ELSE 5)

\* the fields of a security violation that do not come from Section 20
SecurityViolation(pattern) ==
    [section |-> Section20,
     violation_type |-> inadequate_security,
     title |-> "Security of Personal Information",
     description |-> "Inadequate security measures for personal information as required by Section 20",
     severity |-> "HIGH",
     details |-> pattern,
     affected_data |-> << >>]

RECURSIVE SecurityLoopNoBreak(_, _)
\* the loop without its `break`
SecurityLoopNoBreak(text, k) ==
    IF k > Len(unencrypted_patterns) THEN << >>
    ELSE IF RegexSearch(unencrypted_patterns[k], text)
         THEN <<SecurityViolation(unencrypted_patterns[k])>> \o SecurityLoopNoBreak(text, k + 1)
         ELSE SecurityLoopNoBreak(text, k + 1)

RECURSIVE SecurityLoop(_, _)
\* `for pattern in unencrypted_patterns: if re.search(...): append; break`
SecurityLoop(text, k) ==
    IF k > Len(unencrypted_patterns) THEN << >>
    ELSE IF RegexSearch(unencrypted_patterns[k], text)
         THEN <<SecurityViolation(unencrypted_patterns[k])>>
         ELSE SecurityLoop(text, k + 1)

SecurityViolationsOf == [text \in DocumentTexts |-> SecurityLoop(text, 1)]

\* the violation record with the fields taken from section_20_data
WithSection20(violation, section_20_data) ==
    [dpa_reference |-> DpaReference(section_20_data)]
    @@ [violation EXCEPT
           !.title = Get(section_20_data, "title", @),
           !.details = [found |-> @, requires |-> _get_section_summary(section_20_data)]]

_check_security_violations(text, section_20_data) ==
    [i \in 1..Len(SecurityViolationsOf[text]) |->
        WithSection20(SecurityViolationsOf[text][i], section_20_data)]

\* Section 12: Unauthorized Processing
UnauthorizedProcessingRule(pii_categorized, consent_indicators) ==
    IF pii_categorized.total_pii_count > 0 /\ consent_indicators = << >>
    THEN <<[section |-> Section12,
            violation_type |-> unauthorized_processing,
            title |-> Get(get_section(PyStr(Key12)), "title",
                          "Criteria for Lawful Processing of Personal Information"),
            description |-> "Personal information detected without evidence of consent or other lawful basis as required by Section 12",
            severity |-> "HIGH",
            details |-> [found |-> pii_categorized.total_pii_count,
                         requires |-> _get_section_summary(get_section(PyStr(Key12)))],
            affected_data |-> [i \in 1..Len(Head5(pii_categorized.regular_pii)) |->
                                  pii_categorized.regular_pii[i].text],
            dpa_reference |-> DpaReference(get_section(PyStr(Key12)))]>>
    ELSE << >>

\* Section 13: Sensitive Personal Information
SpiProtectionRule(pii_categorized) ==
    IF pii_categorized.sensitive_count > 0
    THEN <<[section |-> Section13,
            violation_type |-> inadequate_spi_protection,
            title |-> Get(get_section(PyStr(Key13)), "title",
                          "Sensitive Personal Information and Privileged Information"),
            description |-> "Sensitive personal information detected without adequate protection measures as required by Section 13",
            severity |-> "CRITICAL",
            details |-> [found |-> pii_categorized.sensitive_count,
                         requires |-> _get_section_summary(get_section(PyStr(Key13)))],
            affected_data |-> [i \in 1..Len(Head5(pii_categorized.sensitive_pii)) |->
                                  pii_categorized.sensitive_pii[i].text],
            dpa_reference |-> DpaReference(get_section(PyStr(Key13)))]>>
    ELSE << >>

\* Section 11: Lack of Transparency (Purpose)
TransparencyRule(pii_categorized, purpose_indicators) ==
    IF pii_categorized.total_pii_count > 0 /\ purpose_indicators = << >>
    THEN <<[section |-> Section11,
            violation_type |-> lack_of_transparency,
            title |-> Get(get_section(PyStr(Key11)), "title", "General Data Privacy Principles"),
            description |-> "Personal information processing without clear purpose statement violates transparency principle",
            severity |-> "MEDIUM",
            details |-> [found |-> "No purpose statement found for data processing",
                         requires |-> _get_section_summary(get_section(PyStr(Key11)))],
            affected_data |-> << >>,
            dpa_reference |-> DpaReference(get_section(PyStr(Key11)))]>>
    ELSE << >>

ExcessiveProcessingRuleInclusive(pii_categorized) ==
    IF pii_categorized.total_pii_count >= ExcessiveThreshold
    THEN <<[section |-> Section11,
            violation_type |-> excessive_processing,
            title |-> Get(get_section(PyStr(Key11)), "title", "General Data Privacy Principles"),
            description |-> "Potentially excessive personal information processing violates proportionality principle",
            severity |-> "MEDIUM",
            details |-> pii_categorized.total_pii_count,
            affected_data |-> << >>,
            dpa_reference |-> DpaReference(get_section(PyStr(Key11)))]>>
    ELSE << >>

\* Section 11: Proportionality Check
ExcessiveProcessingRule(pii_categorized) ==
    IF pii_categorized.total_pii_count > ExcessiveThreshold
    THEN <<[section |-> Section11,
            violation_type |-> excessive_processing,
            title |-> Get(get_section(PyStr(Key11)), "title", "General Data Privacy Principles"),
            description |-> "Potentially excessive personal information processing violates proportionality principle",
            severity |-> "MEDIUM",
            details |-> pii_categorized.total_pii_count,
            affected_data |-> << >>,
            dpa_reference |-> DpaReference(get_section(PyStr(Key11)))]>>
    ELSE << >>

_check_violations(text, pii_categorized, consent_indicators, purpose_indicators) ==
    UnauthorizedProcessingRule(pii_categorized, consent_indicators)
    \o SpiProtectionRule(pii_categorized)
    \o TransparencyRule(pii_categorized, purpose_indicators)
    \o ExcessiveProcessingRule(pii_categorized)
    \o _check_security_violations(text, get_section(PyStr(Key20)))

IsCritical(v) == v.severity = "CRITICAL"

IsHigh(v) == v.severity = "HIGH"

\* the risk level without the item-count conditions
_assess_risk_level_by_severity(violations, pii_categorized) ==
    IF violations = << >> THEN "LOW"
    ELSE IF SelectSeq(violations, IsCritical) # << >> THEN "CRITICAL"
    ELSE IF SelectSeq(violations, IsHigh) # << >> THEN "HIGH"
    ELSE "MEDIUM"

\* the risk level with the item-count condition of HIGH tested first
_assess_risk_level_count_first(violations, pii_categorized) ==
    IF violations = << >> THEN "LOW"
    ELSE IF pii_categorized.total_pii_count > ExcessiveThreshold THEN "HIGH"
    ELSE _assess_risk_level_by_severity(violations, pii_categorized)

_assess_risk_level(violations, pii_categorized) ==
    IF violations = << >> THEN "LOW"
    ELSE LET critical_count == Len(SelectSeq(violations, IsCritical))
             high_count == Len(SelectSeq(violations, IsHigh))
         IN  IF critical_count > 0 \/ pii_categorized.sensitive_count > CriticalSensitiveThreshold
             THEN "CRITICAL"
             ELSE IF high_count > 0 \/ pii_categorized.total_pii_count > ExcessiveThreshold
                  THEN "HIGH"
                  ELSE "MEDIUM"

\* the action recommended for a violation type
ActionFor(violation_type) ==
    IF violation_type = unauthorized_processing THEN <<ObtainProperConsent>>
    ELSE IF violation_type = inadequate_spi_protection THEN <<EnhanceSpiProtection>>
    ELSE IF violation_type = lack_of_transparency THEN <<AddPurposeStatements>>
    ELSE IF violation_type = excessive_processing THEN <<ReviewDataMinimization>>
    ELSE IF violation_type = inadequate_security THEN <<ImplementSecurityMeasures>>
    ELSE << >>

RECURSIVE ActionsPerViolation(_, _)
\* one recommendation for every violation of the list, in the list's order
ActionsPerViolation(violations, k) ==
    IF k > Len(violations) THEN << >>
    ELSE [i \in 1..Len(ActionFor(violations[k].violation_type)) |->
             [action |-> ActionFor(violations[k].violation_type)[i]]]
         \o ActionsPerViolation(violations, k + 1)

\* the general recommendation
GeneralAction(pii_categorized) ==
    IF pii_categorized.total_pii_count > 0
    THEN <<[action |-> ConductPrivacyImpactAssessment]>>
    ELSE << >>

\* recommendations generated per violation instance
_generate_recommendations_per_violation(violations, pii_categorized) ==
    ActionsPerViolation(violations, 1) \o GeneralAction(pii_categorized)

\* the general recommendation generated only when no violation asks for one
_generate_recommendations_general_alone(violations, pii_categorized) ==
    LET violation_types == {violations[i].violation_type : i \in 1..Len(violations)}
        table == <<unauthorized_processing, inadequate_spi_protection, lack_of_transparency,
                   excessive_processing, inadequate_security>>
        present == SelectSeq(table, LAMBDA t : t \in violation_types)
    IN  IF present # << >>
        THEN [i \in 1..Len(present) |-> [action |-> ActionFor(present[i])[1]]]
        ELSE GeneralAction(pii_categorized)

_generate_recommendations(violations, pii_categorized) ==
    LET violation_types == {violations[i].violation_type : i \in 1..Len(violations)}
    IN  (IF unauthorized_processing \in violation_types
         THEN <<[priority |-> "HIGH", action |-> ObtainProperConsent,
                 description |-> "Implement consent mechanisms before processing personal information",
                 section_reference |-> "Section 12"]>>
         ELSE << >>)
        \o
        (IF inadequate_spi_protection \in violation_types
         THEN <<[priority |-> "CRITICAL", action |-> EnhanceSpiProtection,
                 description |-> "Implement additional security measures for sensitive personal information",
                 section_reference |-> "Section 13, Section 20"]>>
         ELSE << >>)
        \o
        (IF lack_of_transparency \in violation_types
         THEN <<[priority |-> "MEDIUM", action |-> AddPurposeStatements,
                 description |-> "Clearly state the purpose for processing personal information",
                 section_reference |-> "Section 11"]>>
         ELSE << >>)
        \o
        (IF excessive_processing \in violation_types
         THEN <<[priority |-> "MEDIUM", action |-> ReviewDataMinimization,
                 description |-> "Ensure only necessary personal information is processed",
                 section_reference |-> "Section 11"]>>
         ELSE << >>)
        \o
        (IF inadequate_security \in violation_types
         THEN <<[priority |-> "HIGH", action |-> ImplementSecurityMeasures,
                 description |-> "Deploy appropriate technical and organizational security measures",
                 section_reference |-> "Section 20"]>>
         ELSE << >>)
        \o
        (IF pii_categorized.total_pii_count > 0
         THEN <<[priority |-> "LOW", action |-> ConductPrivacyImpactAssessment,
                 description |-> "Perform a comprehensive privacy impact assessment for this document",
                 section_reference |-> "General DPA Compliance"]>>
         ELSE << >>)

_traditional_analysis(text, document_name, pii_categorized, consent_indicators, purpose_indicators) ==
    LET violations == _check_violations(text, pii_categorized, consent_indicators, purpose_indicators)
    IN  [document_name |-> document_name,
         analysis_date |-> "now",
         pii_summary |-> pii_categorized,
         consent_indicators |-> consent_indicators,
         purpose_indicators |-> purpose_indicators,
         violations |-> violations,
         compliance_status |-> IF violations = << >> THEN "COMPLIANT" ELSE "NON-COMPLIANT",
         risk_level |-> _assess_risk_level(violations, pii_categorized),
         recommendations |-> _generate_recommendations(violations, pii_categorized),
         analysis_type |-> "traditional"]

-----------------------------------------------------------------------------
(* Knowledge-base baseline (enhanced_dpa_knowledge_v2.py).                 *)

\* any(keyword in text for keyword in keywords)
AnyKeywordIn(keywords, text) ==
    \E k \in 1..Len(keywords) : Contains(text, keywords[k])

\* text.lower() of the sample documents
LowerOf == [text \in DocumentTexts |-> Lower(text)]

LoweredTexts == {LowerOf[text] : text \in DocumentTexts}

\* The keyword tests, tabulated over the lower-cased sample documents.
HasConsentIndicators == [text \in LoweredTexts |-> AnyKeywordIn(consent_keywords, text)]

HasExplicitConsent == [text \in LoweredTexts |-> AnyKeywordIn(explicit_keywords, text)]

HasTransparencyIndicators ==
    [text \in LoweredTexts |-> AnyKeywordIn(transparency_keywords, text)]

HasSecurityMeasures == [text \in LoweredTexts |-> AnyKeywordIn(security_keywords, text)]

_has_consent_indicators(text) == HasConsentIndicators[text]

_has_explicit_consent(text) == HasExplicitConsent[text]

_has_transparency_indicators(text) == HasTransparencyIndicators[text]

_has_security_measures(text) == HasSecurityMeasures[text]

\* item.get("sensitive", False)
HasSensitiveKey(item) == Get(item, "sensitive", FALSE)

check_violation(text, pii_data) ==
    LET text_lower == LowerOf[text]
        sensitive_pii == SelectSeq(pii_data, HasSensitiveKey)
    IN  (IF pii_data # << >> /\ ~_has_consent_indicators(text_lower)
         THEN <<[section |-> KbSection12,
                 title |-> "Criteria for Lawful Processing of Personal Information",
                 violation |-> ProcessingWithoutConsent,
                 severity |-> "HIGH",
                 description |-> "Personal information appears to be processed without clear consent from data subjects",
                 dpa_reference |-> DpaReference(get_section(PyStr(KbSection12)))]>>
         ELSE << >>)
        \o
        (IF sensitive_pii # << >> /\ ~_has_explicit_consent(text_lower)
         THEN <<[section |-> KbSection13,
                 title |-> "Sensitive Personal Information and Privileged Information",
                 violation |-> SensitiveWithoutExplicitConsent,
                 severity |-> "CRITICAL",
                 description |-> "Sensitive personal information detected without explicit consent provisions",
                 dpa_reference |-> DpaReference(get_section(PyStr(KbSection13)))]>>
         ELSE << >>)
        \o
        (IF pii_data # << >> /\ ~_has_transparency_indicators(text_lower)
         THEN <<[section |-> KbSection16,
                 title |-> "Rights of the Data Subject",
                 violation |-> LackOfTransparency,
                 severity |-> "MEDIUM",
                 description |-> "Data subjects may not be adequately informed about data processing",
                 dpa_reference |-> DpaReference(get_section(PyStr(KbSection16)))]>>
         ELSE << >>)
        \o
        (IF ~_has_security_measures(text_lower)
         THEN <<[section |-> KbSection20,
                 title |-> "Security of Personal Information",
                 violation |-> InadequateSecurityMeasures,
                 severity |-> "HIGH",
                 description |-> "Document does not demonstrate adequate security measures for personal information",
                 dpa_reference |-> DpaReference(get_section(PyStr(KbSection20)))]>>
         ELSE << >>)

generate_recommendations(violations, pii_data) ==
    LET violation_sections == {violations[i].section : i \in 1..Len(violations)}
    IN  (IF KbSection12 \in violation_sections \/ KbSection13 \in violation_sections
         THEN <<[priority |-> "CRITICAL", action |-> KbImplementConsent,
                 description |-> "Establish clear, specific, and informed consent procedures before collecting personal information",
                 section_reference |-> "Section 12 - Criteria for Lawful Processing"]>>
         ELSE << >>)
        \o
        (IF KbSection16 \in violation_sections
         THEN <<[priority |-> "HIGH", action |-> KbEnhanceTransparency,
                 description |-> "Provide clear information about data processing purposes, methods, and data subject rights",
                 section_reference |-> "Section 16 - Rights of the Data Subject"]>>
         ELSE << >>)
        \o
        (IF KbSection20 \in violation_sections
         THEN <<[priority |-> "HIGH", action |-> KbImplementSecurity,
                 description |-> "Deploy organizational, physical, and technical safeguards to protect personal information",
                 section_reference |-> "Section 20 - Security of Personal Information"]>>
         ELSE << >>)
        \o
        (IF pii_data # << >>
         THEN <<[priority |-> "MEDIUM", action |-> KbConductAssessment,
                 description |-> "Evaluate the risks and implement appropriate measures for personal data processing",
                 section_reference |-> "Section 11 - General Data Privacy Principles"]>>
         ELSE << >>)

get_comprehensive_analysis(text, pii_data) ==
    LET violations == check_violation(text, pii_data)
        critical_violations == SelectSeq(violations, IsCritical)
        high_violations == SelectSeq(violations, IsHigh)
    IN  [compliance_status |-> IF violations = << >> THEN "COMPLIANT" ELSE "NON-COMPLIANT",
         risk_level |-> IF violations = << >> THEN "LOW"
                        ELSE IF critical_violations # << >> THEN "CRITICAL"
                        ELSE IF Len(high_violations) >= 2 THEN "HIGH"
                        ELSE IF high_violations # << >> THEN "MEDIUM"
                        ELSE "LOW",
         violations |-> violations,
         recommendations |-> generate_recommendations(violations, pii_data),
         analysis_metadata |-> [knowledge_base_version |-> "v2",
                                analysis_date |-> "now",
                                sections_analyzed |-> Len(sections),
                                total_pii_found |-> Len(pii_data)]]

-----------------------------------------------------------------------------
(* External model and reconciliation (mistral_analyzer.py).                *)

AiSection20 == <<"S","e","c","t","i","o","n"," ","2","0">>

AiSecurity == <<"S","e","c","u","r","i","t","y">>

AiSection21 == <<"S","e","c","t","i","o","n"," ","2","1">>

AiAccountability == <<"a","c","c","o","u","n","t","a","b","i","l","i","t","y">>

AiSection12Lower == <<"s","e","c","t","i","o","n"," ","1","2">>

AiUnauthorized == <<"U","n","a","u","t","h","o","r","i","z","e","d">>

EmptyString == <<>>

\* A JSON value that is a list, and one that is an object: Python's [] and {}
\* are different values although both are empty.
PyList(items) == [py |-> "list", v |-> items]

PyDict(d) == [py |-> "dict", v |-> d]

\* Violation candidates an external model may return.
AiCandidates ==
    {[section |-> AiSection20, violation_type |-> AiSecurity, severity |-> "HIGH",
      description |-> "Data is stored without safeguards", legal_basis |-> "Section 20", confidence |-> 9],
     [section |-> AiSection21, violation_type |-> AiAccountability, severity |-> "CRITICAL",
      description |-> "No accountable officer is named", legal_basis |-> "Section 21", confidence |-> 7],
     [description |-> "Unclassified observation"]}

RECURSIVE SeqsUpTo(_, _)
\* the lists of at most n elements of S
SeqsUpTo(S, n) ==
    IF n = 0 THEN {<< >>}
    ELSE LET shorter == SeqsUpTo(S, n - 1)
         IN  shorter \cup {Append(s, x) : s \in shorter, x \in S}

AiViolationLists == SeqsUpTo(AiCandidates, MaxAiViolations)

AiRiskAssessments ==
    {PyDict([risk_factors |-> << >>])}
    \cup {PyDict([overall_risk |-> r, risk_factors |-> << >>]) :
             r \in {"LOW", "MEDIUM", "HIGH", "CRITICAL", "SEVERE"}}

\* the risk assessments that come together with candidate violations
AiRiskAssessmentsWithViolations ==
    {PyDict([risk_factors |-> << >>])}
    \cup {PyDict([overall_risk |-> r, risk_factors |-> << >>]) : r \in {"LOW", "CRITICAL", "SEVERE"}}

AiInsights ==
    PyDict([document_type |-> "form", processing_purpose |-> "marketing",
            data_flow |-> "third parties", compliance_gaps |-> <<"no consent">>])

\* a candidate whose severity is none of the engine's levels
UngradedCandidate ==
    [section |-> AiSection21, violation_type |-> AiAccountability, severity |-> "SEVERE",
     description |-> "No accountable officer is named", legal_basis |-> "Section 21", confidence |-> 7]

\* The JSON objects an external model may answer with: any of the keys
\* ai_violations and ai_risk_assessment may be missing.
AiJsonBodies ==
    {[ai_recommendations |-> << >>, ai_insights |-> AiInsights],
     [ai_violations |-> <<UngradedCandidate>>, ai_recommendations |-> << >>,
      ai_risk_assessment |-> PyDict([risk_factors |-> << >>]), ai_insights |-> AiInsights]}
    \cup {[ai_violations |-> vs, ai_recommendations |-> << >>, ai_insights |-> AiInsights] :
             vs \in AiViolationLists}
    \cup {[ai_recommendations |-> << >>, ai_risk_assessment |-> ra, ai_insights |-> AiInsights] :
             ra \in AiRiskAssessments}
    \cup {[ai_violations |-> vs, ai_recommendations |-> << >>,
           ai_risk_assessment |-> ra, ai_insights |-> AiInsights] :
             vs \in AiViolationLists, ra \in AiRiskAssessmentsWithViolations}

\* Outcomes of self.client.chat.complete: the call raises, the answer holds
\* no JSON object, or the answer holds a JSON object.
ExternalModelOutcomes ==
    {[kind |-> "error"], [kind |-> "text"]}
    \cup {[kind |-> "json", parsed |-> body] : body \in AiJsonBodies}

\* With AI enhancement off the external model is not called.
NotCalled == [kind |-> "not_called"]

_fallback_parse ==
    [ai_violations |-> << >>,
     ai_recommendations |-> << >>,
     ai_risk_assessment |-> PyDict([overall_risk |-> "MEDIUM",
                                    risk_factors |-> <<"AI parsing error">>,
                                    mitigation_priority |-> "immediate"]),
     ai_insights |-> PyDict([document_type |-> "unknown", processing_purpose |-> "unknown",
                             data_flow |-> "unknown",
                             compliance_gaps |-> <<"AI analysis incomplete">>]),
     raw_response |-> "text"]

\* `for key in required_keys: if key not in parsed: parsed[key] = []`
FillRequired(parsed, key, empty) ==
    IF key \in DOMAIN parsed THEN parsed ELSE (key :> empty) @@ parsed

_parse_ai_response(outcome) ==
    IF outcome.kind = "json"
    THEN FillRequired(
           FillRequired(
             FillRequired(
               FillRequired(outcome.parsed, "ai_violations", << >>),
               "ai_recommendations", << >>),
             "ai_risk_assessment", PyList(<< >>)),
           "ai_insights", PyList(<< >>))
    ELSE _fallback_parse

_get_mistral_text_analysis(outcome) ==
    IF outcome.kind = "error"
    THEN [error |-> "request failed", ai_violations |-> << >>, ai_recommendations |-> << >>]
    ELSE _parse_ai_response(outcome)

RECURSIVE DuplicateLoopOneWay(_, _, _, _)
\* the loop testing only whether the secondary value is inside the baseline's
DuplicateLoopOneWay(ai_section, ai_type, baseline_violations, k) ==
    IF k > Len(baseline_violations) THEN FALSE
    ELSE LET baseline_section == Lower(Get(baseline_violations[k], "section", EmptyString))
             baseline_type == Lower(Get(baseline_violations[k], "violation", EmptyString))
         IN  IF /\ Contains(baseline_section, ai_section)
                /\ Contains(baseline_type, ai_type)
             THEN TRUE
             ELSE DuplicateLoopOneWay(ai_section, ai_type, baseline_violations, k + 1)

RECURSIVE DuplicateLoop(_, _, _, _)
\* `for baseline in baseline_violations: ... return True` / `return False`
DuplicateLoop(ai_section, ai_type, baseline_violations, k) ==
    IF k > Len(baseline_violations) THEN FALSE
    ELSE LET baseline_section == Lower(Get(baseline_violations[k], "section", EmptyString))
             baseline_type == Lower(Get(baseline_violations[k], "violation", EmptyString))
         IN  IF /\ Contains(baseline_section, ai_section) \/ Contains(ai_section, baseline_section)
                /\ Contains(baseline_type, ai_type) \/ Contains(ai_type, baseline_type)
             THEN TRUE
             ELSE DuplicateLoop(ai_section, ai_type, baseline_violations, k + 1)

_is_duplicate_violation(ai_violation, baseline_violations) ==
    DuplicateLoop(Lower(Get(ai_violation, "section", EmptyString)),
                  Lower(Get(ai_violation, "violation_type", EmptyString)),
                  baseline_violations, 1)

StandardViolation(ai_violation) ==
    [section |-> Get(ai_violation, "section", AiDetected),
     title |-> Get(ai_violation, "section", AiDetectedViolation),
     violation |-> Get(ai_violation, "violation_type", ai_detected),
     severity |-> Get(ai_violation, "severity", "MEDIUM"),
     description |-> Get(ai_violation, "description", ""),
     details |-> Get(ai_violation, "legal_basis", ""),
     confidence |-> Get(ai_violation, "confidence", 8),
     source |-> "mistral_ai"]

RECURSIVE MergeViolationsInFront(_, _, _)
\* the loop inserting each merged violation at the head of the list
MergeViolationsInFront(ai_violations, violations, k) ==
    IF k > Len(ai_violations) THEN violations
    ELSE IF ~_is_duplicate_violation(ai_violations[k], violations)
         THEN MergeViolationsInFront(ai_violations,
                  <<StandardViolation(ai_violations[k])>> \o violations, k + 1)
         ELSE MergeViolationsInFront(ai_violations, violations, k + 1)

RECURSIVE MergeViolations(_, _, _)
\* `for ai_violation in ai_violations:` of _combine_analyses.  violations is
\* combined["violations"]; baseline_violations is the same list object
\* (baseline_analysis.copy() is shallow), so every append is visible to the
\* duplicate test of the later candidates.
MergeViolations(ai_violations, violations, k) ==
    IF k > Len(ai_violations) THEN violations
    ELSE IF ~_is_duplicate_violation(ai_violations[k], violations)
         THEN MergeViolations(ai_violations,
                              Append(violations, StandardViolation(ai_violations[k])), k + 1)
         ELSE MergeViolations(ai_violations, violations, k + 1)

RECURSIVE DuplicateRecLoop(_, _, _)
DuplicateRecLoop(ai_action, baseline_recommendations, k) ==
    IF k > Len(baseline_recommendations) THEN FALSE
    ELSE LET baseline_action == Lower(Get(baseline_recommendations[k], "action", EmptyString))
         IN  IF Contains(baseline_action, ai_action) \/ Contains(ai_action, baseline_action)
             THEN TRUE
             ELSE DuplicateRecLoop(ai_action, baseline_recommendations, k + 1)

_is_duplicate_recommendation(ai_rec, baseline_recommendations) ==
    DuplicateRecLoop(Lower(Get(ai_rec, "action", EmptyString)), baseline_recommendations, 1)

StandardRecommendation(ai_rec) ==
    [priority |-> Get(ai_rec, "priority", "MEDIUM"),
     action |-> Get(ai_rec, "action", EmptyString),
     description |-> Get(ai_rec, "description", ""),
     section_reference |-> Get(ai_rec, "section_reference", "AI Analysis"),
     implementation |-> Get(ai_rec, "implementation", ""),
     source |-> "mistral_ai"]

RECURSIVE MergeRecommendations(_, _, _)
\* `for ai_rec in ai_recommendations:`; the list is shared as for violations
MergeRecommendations(ai_recommendations, recommendations, k) ==
    IF k > Len(ai_recommendations) THEN recommendations
    ELSE IF ~_is_duplicate_recommendation(ai_recommendations[k], recommendations)
         THEN MergeRecommendations(ai_recommendations,
                  Append(recommendations, StandardRecommendation(ai_recommendations[k])), k + 1)
         ELSE MergeRecommendations(ai_recommendations, recommendations, k + 1)

risk_levels == <<"LOW", "MEDIUM", "HIGH", "CRITICAL">>

\* risk_levels.index(level), 1-based
RiskIndex(level) == CHOOSE i \in 1..Len(risk_levels) : risk_levels[i] = level

\* the second argument, whatever the first
TakeSecond(a, b) == b

\* max(a, b)
Max(a, b) == IF a >= b THEN a ELSE b

\* the risk assessment read together with the compliance gaps of the insights
AiRiskWithGaps(ai_analysis) ==
    IF /\ "ai_insights" \in DOMAIN ai_analysis
       /\ ai_analysis.ai_insights.py = "dict"
       /\ Get(ai_analysis.ai_insights.v, "compliance_gaps", << >>) # << >>
    THEN PyDict([overall_risk |-> "CRITICAL"])
    ELSE Get(ai_analysis, "ai_risk_assessment", PyDict(<< >>))

\* ai_analysis.get("ai_risk_assessment", {})
AiRiskOf(ai_analysis) == Get(ai_analysis, "ai_risk_assessment", PyDict(<< >>))

\* ai_risk.get("overall_risk") is truthy
HasOverallRisk(ai_risk) == Get(ai_risk.v, "overall_risk", "") # ""

\* _combine_analyses raises: ai_risk.get on a list (AttributeError), or
\* risk_levels.index of a value that is not a risk level (ValueError)
_combine_analyses_raises(ai_analysis) ==
    LET ai_risk == AiRiskOf(ai_analysis)
    IN  \/ ai_risk.py # "dict"
        \/ /\ HasOverallRisk(ai_risk)
           /\ ~\E i \in 1..Len(risk_levels) : risk_levels[i] = ai_risk.v.overall_risk

\* the status left as the baseline computed it
InheritedStatus(status, violations) == status

\* `if combined["violations"]: combined["compliance_status"] = "NON-COMPLIANT"`
UpdatedStatus(status, violations) ==
    IF violations # << >> THEN "NON-COMPLIANT" ELSE status

_combine_analyses(baseline_analysis, ai_analysis) ==
    LET violations == MergeViolations(Get(ai_analysis, "ai_violations", << >>),
                                      baseline_analysis.violations, 1)
        recommendations == MergeRecommendations(Get(ai_analysis, "ai_recommendations", << >>),
                                                baseline_analysis.recommendations, 1)
        ai_risk == AiRiskOf(ai_analysis)
        merged == [baseline_analysis EXCEPT
                      !.violations = violations,
                      !.recommendations = recommendations,
                      !.risk_level =
                          IF HasOverallRisk(ai_risk)
                          THEN risk_levels[Max(RiskIndex(@), RiskIndex(ai_risk.v.overall_risk))]
                          ELSE @,
                      !.compliance_status = UpdatedStatus(@, violations)]
    IN  (IF HasOverallRisk(ai_risk)
         THEN [ai_risk_level |-> ai_risk.v.overall_risk]
         ELSE << >>)
        @@ [ai_insights |-> Get(ai_analysis, "ai_insights", PyDict(<< >>)),
            ai_risk_assessment |-> ai_risk]
        @@ merged

text_model == "mistral-small-latest"

vision_model == "pixtral-12b-2409"

\* the default of the parameter image_path
NoImage == "None"

\* the same request and the same parsing as _get_mistral_text_analysis, with
\* the image attached
_get_mistral_image_analysis(outcome) ==
    IF outcome.kind = "error"
    THEN [error |-> "request failed", ai_violations |-> << >>, ai_recommendations |-> << >>]
    ELSE _parse_ai_response(outcome)

\* `if image_path: ... else: ...` of analyze_document_with_ai
AiAnalysisOf(image_path, outcome) ==
    IF image_path # NoImage
    THEN _get_mistral_image_analysis(outcome)
    ELSE _get_mistral_text_analysis(outcome)

analyze_document_with_ai(text, pii_data, document_name, image_path, outcome) ==
    LET baseline_analysis == get_comprehensive_analysis(text, pii_data)
        ai_analysis == AiAnalysisOf(image_path, outcome)
        enhanced_analysis == _combine_analyses(baseline_analysis, ai_analysis)
    IN  [document_name |-> document_name,
         analysis_date |-> "now",
         analysis_metadata |-> [document_name |-> document_name,
                                analysis_date |-> "now",
                                ai_model |-> IF image_path # NoImage
                                             THEN vision_model ELSE text_model,
                                knowledge_base_version |-> "v2",
                                analysis_type |-> IF image_path # NoImage
                                                  THEN "hybrid_ai_vision_enhanced"
                                                  ELSE "hybrid_ai_enhanced",
                                has_image |-> image_path # NoImage]]
        @@ enhanced_analysis

analyze_document_with_ai_raises(image_path, outcome) ==
    _combine_analyses_raises(AiAnalysisOf(image_path, outcome))

\* Outcomes of _extract_text_from_image: the image cannot be read or the
\* vision model fails, or the vision model returns the text of the image.
\* the texts the vision model reads from the uploaded image
ImageTexts == {TextEmpty, TextUnencrypted, TextAllGood}

ImageExtractions ==
    {[kind |-> "error"]} \cup {[kind |-> "text", text |-> text] : text \in ImageTexts}

\* the report of the `except` branch of analyze_image_document
ImageAnalysisFailed(document_name) ==
    [document_name |-> document_name,
     analysis_date |-> "now",
     compliance_status |-> "ERROR",
     risk_level |-> "UNKNOWN",
     violations |-> << >>,
     recommendations |-> <<[priority |-> "HIGH",
                            action |-> "Manual review required",
                            description |-> "Image analysis failed",
                            section_reference |-> "System Error"]>>,
     pii_summary |-> [total_pii_count |-> 0,
                      sensitive_count |-> 0,
                      regular_count |-> 0,
                      regular_pii |-> << >>,
                      sensitive_pii |-> << >>],
     analysis_metadata |-> [analysis_type |-> "image_analysis_failed",
                            error |-> "Image analysis failed"],
     extracted_text |-> "Text extraction failed"]

\* analyze_image_document without `if 'pii_summary' not in result: ...`
analyze_image_document_without_summary(image_path, document_name, extraction, results, outcome) ==
    IF extraction.kind = "error" \/ analyze_document_with_ai_raises(image_path, outcome)
    THEN ImageAnalysisFailed(document_name)
    ELSE [extracted_text |-> extraction.text]
         @@ analyze_document_with_ai(extraction.text, detect_pii(results), document_name,
                                     image_path, outcome)

\* MistralDPAAnalyzer.analyze_image_document; results is what the entity
\* analyzer reports for the extracted text
analyze_image_document(image_path, document_name, extraction, results, outcome) ==
    IF extraction.kind = "error" \/ analyze_document_with_ai_raises(image_path, outcome)
    THEN ImageAnalysisFailed(document_name)
    ELSE LET extracted_text == extraction.text
             pii_results == detect_pii(results)
             pii_categorized == categorize_pii(pii_results)
             result == analyze_document_with_ai(extracted_text, pii_results, document_name,
                                                image_path, outcome)
         IN  [extracted_text |-> extracted_text]
             @@ result
             @@ [pii_summary |-> pii_categorized]

-----------------------------------------------------------------------------
(* DPAComplianceChecker.analyze_document.                                  *)

\* analyze_document without its try/except: what the caller gets when the
\* AI-enhanced branch raises is the exception
analyze_document_propagating(use_ai, text, results, document_name, outcome) ==
    LET pii_results == detect_pii(results)
        pii_categorized == categorize_pii(pii_results)
        consent_indicators == detect_consent_indicators(text)
        purpose_indicators == detect_purpose_statements(text)
    IN  IF use_ai
        THEN IF analyze_document_with_ai_raises(NoImage, outcome)
             THEN [raised |-> "Exception"]
             ELSE [consent_indicators |-> consent_indicators,
                   purpose_indicators |-> purpose_indicators,
                   pii_summary |-> pii_categorized]
                  @@ analyze_document_with_ai(text, pii_results, document_name, NoImage, outcome)
        ELSE _traditional_analysis(text, document_name, pii_categorized,
                                   consent_indicators, purpose_indicators)

analyze_document(use_ai, text, results, document_name, outcome) ==
    LET pii_results == detect_pii(results)
        pii_categorized == categorize_pii(pii_results)
        consent_indicators == detect_consent_indicators(text)
        purpose_indicators == detect_purpose_statements(text)
    IN  IF use_ai /\ ~analyze_document_with_ai_raises(NoImage, outcome)
        THEN [consent_indicators |-> consent_indicators,
              purpose_indicators |-> purpose_indicators,
              pii_summary |-> pii_categorized]
             @@ analyze_document_with_ai(text, pii_results, document_name, NoImage, outcome)
        ELSE _traditional_analysis(text, document_name, pii_categorized,
                                   consent_indicators, purpose_indicators)

-----------------------------------------------------------------------------
(* The state machine: one checker serving one request at a time.           *)

\* isinstance(value, dict): records are dicts, None and lists are tagged
IsInstanceDict(value) == "py" \notin DOMAIN value \/ value.py = "dict"

\* the entries of a dict, tagged or not
DictOf(value) == IF "py" \in DOMAIN value THEN value.v ELSE value

\* violations[:3] and recommendations[:3]
TopCount == 3

Top(list) == SubSeq(list, 1, IF Len(list) < TopCount THEN Len(list) ELSE TopCount)

\* len([x for x in list if x.get("source") == "mistral_ai"])
CountFromAi(list) ==
    Len(SelectSeq(list, LAMBDA x : "source" \in DOMAIN x /\ x.source = "mistral_ai"))

\* generate_summary raises when ai_insights is present and no dict:
\* ai_insights.get is looked up on it
generate_summary_raises(compliance_report) ==
    /\ "ai_insights" \in DOMAIN compliance_report
    /\ ~IsInstanceDict(compliance_report.ai_insights)

generate_summary(compliance_report) ==
    LET is_ai_enhanced == "ai_insights" \in DOMAIN compliance_report
        pii_summary == Get(compliance_report, "pii_summary", EmptyDict)
        pii_found == IF IsInstanceDict(pii_summary)
                     THEN Get(DictOf(pii_summary), "total_pii_count", 0) ELSE 0
        sensitive_pii_found == IF IsInstanceDict(pii_summary)
                               THEN Get(DictOf(pii_summary), "sensitive_count", 0) ELSE 0
        violations == Get(compliance_report, "violations", << >>)
        recommendations == Get(compliance_report, "recommendations", << >>)
        summary ==
            [document |-> Get(compliance_report, "document_name", "Unknown Document"),
             status |-> Get(compliance_report, "compliance_status", "UNKNOWN"),
             risk_level |-> Get(compliance_report, "risk_level", "UNKNOWN"),
             total_violations |-> Len(violations),
             pii_found |-> pii_found,
             sensitive_pii_found |-> sensitive_pii_found,
             key_issues |-> [i \in 1..Len(Top(violations)) |->
                                Get(violations[i], "description", "Unknown issue")],
             top_recommendations |-> [i \in 1..Len(Top(recommendations)) |->
                                         Get(recommendations[i], "action",
                                             "Unknown recommendation")],
             analysis_type |-> IF is_ai_enhanced THEN "AI-Enhanced" ELSE "Traditional"]
    IN  IF is_ai_enhanced
        THEN LET ai_insights == DictOf(Get(compliance_report, "ai_insights", EmptyDict))
             IN  [ai_document_type |-> Get(ai_insights, "document_type", "Unknown"),
                  ai_processing_purpose |-> Get(ai_insights, "processing_purpose",
                                                "Not specified"),
                  ai_risk_level |-> Get(compliance_report, "ai_risk_level", "Unknown"),
                  ai_detected_violations |-> CountFromAi(violations),
                  ai_recommendations |-> CountFromAi(recommendations),
                  compliance_gaps |-> Get(ai_insights, "compliance_gaps", << >>)] @@ summary
        ELSE summary

NoRequest == << >>

NoReport == << >>

NoCall == << >>

DocumentNames == {"Unknown Document"}

ImagePaths == {"upload.png"}

\* the knowledge base file that the builder wrote
SampleKbFile == [kind |-> "json", value |-> PyDict(SampleKnowledgeBase)]

\* The state after the modules are imported and a DPAComplianceChecker is
\* constructed: the knowledge base is loaded, AI enhancement is on.
Init ==
    /\ use_ai_enhancement = TRUE
    /\ pc = "idle"
    /\ request = NoRequest
    /\ report = NoReport
    /\ ai_calls = 0
    /\ reconciled_before = FALSE
    /\ dup_args = << >>
    /\ dup_result = FALSE
    /\ kb_file = SampleKbFile
    /\ sections = SampleSections
    /\ definitions = SampleDefinitions
    /\ penalties = SamplePenalties
    /\ search_index = SampleSearchIndex
    /\ fn_args = NoCall
    /\ fn_result = NoCall

\* DPAComplianceChecker.set_ai_enhancement
set_ai_enhancement(enabled) ==
    /\ pc = "idle"
    /\ use_ai_enhancement' = enabled
    /\ UNCHANGED <<pc, request, report, ai_calls, reconciled_before, dup_args, dup_result,
                   kb_file, kb_vars, fn_vars>>

\* the sections with each content cut down to its first sentence
SummarizedSections ==
    [k \in 1..Len(sections) |->
        [sections[k] EXCEPT
            !.value = IF "content" \in DOMAIN @
                      THEN [@ EXCEPT !.content = SplitFirst(@, SentenceEnd)]
                      ELSE @]]

\* analyze_document with a failed external-model call attempted a second time
AnalyzeDocumentRetrying(text, nr, ns, document_name, outcome) ==
    /\ pc = "idle"
    /\ request' = [text |-> text, results |-> AnalyzerResults(nr, ns),
                   document_name |-> document_name, outcome |-> outcome,
                   use_ai |-> use_ai_enhancement]
    /\ report' = analyze_document(use_ai_enhancement, text, AnalyzerResults(nr, ns),
                                  document_name, outcome)
    /\ ai_calls' = IF ~use_ai_enhancement THEN 0
                   ELSE IF outcome.kind = "error" THEN 2 ELSE 1
    /\ pc' = "returned"
    /\ UNCHANGED <<use_ai_enhancement, reconciled_before, dup_args, dup_result,
                   kb_file, kb_vars, fn_vars>>

\* analyze_document writing into the section records that get_section hands
\* out by reference
AnalyzeDocumentEditingSections(text, nr, ns, document_name, outcome) ==
    /\ pc = "idle"
    /\ request' = [text |-> text, results |-> AnalyzerResults(nr, ns),
                   document_name |-> document_name, outcome |-> outcome,
                   use_ai |-> use_ai_enhancement]
    /\ report' = analyze_document(use_ai_enhancement, text, AnalyzerResults(nr, ns),
                                  document_name, outcome)
    /\ ai_calls' = IF use_ai_enhancement THEN 1 ELSE 0
    /\ pc' = "returned"
    /\ sections' = SummarizedSections
    /\ UNCHANGED <<use_ai_enhancement, reconciled_before, dup_args, dup_result,
                   kb_file, definitions, penalties, search_index, fn_vars>>

\* One call of analyze_document, to completion.
AnalyzeDocument(text, nr, ns, document_name, outcome) ==
    /\ pc = "idle"
    /\ request' = [text |-> text, results |-> AnalyzerResults(nr, ns),
                   document_name |-> document_name, outcome |-> outcome,
                   use_ai |-> use_ai_enhancement]
    /\ report' = analyze_document(use_ai_enhancement, text, AnalyzerResults(nr, ns),
                                  document_name, outcome)
    /\ ai_calls' = IF use_ai_enhancement THEN 1 ELSE 0
    /\ pc' = "returned"
    /\ UNCHANGED <<use_ai_enhancement, reconciled_before, dup_args, dup_result,
                   kb_file, kb_vars, fn_vars>>

\* One call of analyze_image_document, to completion: the vision model is
\* asked for the text and, when that succeeded, for the analysis.
AnalyzeImageDocument(image_path, document_name, extraction, nr, ns, outcome) ==
    /\ pc = "idle"
    /\ request' = [image_path |-> image_path, extraction |-> extraction,
                   results |-> AnalyzerResults(nr, ns),
                   document_name |-> document_name, outcome |-> outcome]
    /\ report' = analyze_image_document(image_path, document_name, extraction,
                                        AnalyzerResults(nr, ns), outcome)
    /\ ai_calls' = IF extraction.kind = "error" THEN 1 ELSE 2
    /\ pc' = "image_returned"
    /\ UNCHANGED <<use_ai_enhancement, reconciled_before, dup_args, dup_result,
                   kb_file, kb_vars, fn_vars>>

\* The caller takes the report; the checker keeps nothing of the request.
ReturnReport ==
    /\ pc \in {"returned", "image_returned"}
    /\ pc' = "idle"
    /\ request' = NoRequest
    /\ report' = NoReport
    /\ ai_calls' = 0
    /\ reconciled_before' = (reconciled_before \/ "ai_insights" \in DOMAIN report)
    /\ UNCHANGED <<use_ai_enhancement, dup_args, dup_result, kb_file, kb_vars, fn_vars>>

Next ==
    \/ \E enabled \in BOOLEAN : set_ai_enhancement(enabled)
    \/ /\ pc = "idle"
       /\ \E text \in DocumentTexts,
             n \in 0..(IF use_ai_enhancement THEN MaxAiItems ELSE MaxItems),
             ns \in 0..MaxSensitive,
             document_name \in DocumentNames,
             outcome \in (IF use_ai_enhancement THEN ExternalModelOutcomes ELSE {NotCalled}) :
             /\ ns <= n
             /\ AnalyzeDocument(text, n - ns, ns, document_name, outcome)
    \/ /\ pc = "idle"
       /\ \E image_path \in ImagePaths, document_name \in DocumentNames,
             extraction \in ImageExtractions, n \in 0..MaxImageItems, ns \in 0..MaxImageItems,
             outcome \in ExternalModelOutcomes :
             /\ ns <= n
             /\ extraction.kind = "error" => (n = 0 /\ outcome = [kind |-> "error"])
             /\ AnalyzeImageDocument(image_path, document_name, extraction, n - ns, ns, outcome)
    \/ ReturnReport

Spec == Init /\ [][Next]_vars

-----------------------------------------------------------------------------
(* Direct calls of _is_duplicate_violation on arbitrary arguments.         *)

\* secondary violations: section and violation_type each present or missing
DupAiViolations ==
    {[description |-> "no section, no type"]}
    \cup {[section |-> sec] : sec \in {Section12, AiSection12Lower, KbSection12, Section13}}
    \cup {[violation_type |-> ty] :
             ty \in {unauthorized_processing, AiUnauthorized, inadequate_security}}
    \cup {[section |-> sec, violation_type |-> ty] :
             sec \in {Section12, AiSection12Lower, KbSection12, Section13},
             ty \in {unauthorized_processing, AiUnauthorized, inadequate_security}}

\* baseline violations: section and violation each present or missing
DupBaselineViolations ==
    {[section |-> Section12, violation |-> unauthorized_processing],
     [section |-> KbSection12, violation |-> ProcessingWithoutConsent],
     [section |-> Section20, violation |-> inadequate_security],
     [section |-> Section13],
     [title |-> "no section, no violation"]}

DupBaselines == SeqsUpTo(DupBaselineViolations, MaxBaseline)

InitDup ==
    /\ use_ai_enhancement = TRUE
    /\ pc = "idle"
    /\ request = NoRequest
    /\ report = NoReport
    /\ ai_calls = 0
    /\ reconciled_before = FALSE
    /\ dup_args \in {[ai_violation |-> a, baseline_violations |-> b] :
                        a \in DupAiViolations, b \in DupBaselines}
    /\ dup_result = FALSE
    /\ kb_file = SampleKbFile
    /\ sections = SampleSections
    /\ definitions = SampleDefinitions
    /\ penalties = SamplePenalties
    /\ search_index = SampleSearchIndex
    /\ fn_args = NoCall
    /\ fn_result = NoCall

CallIsDuplicateViolation ==
    /\ pc = "idle"
    /\ dup_result' = _is_duplicate_violation(dup_args.ai_violation, dup_args.baseline_violations)
    /\ pc' = "dup_returned"
    /\ UNCHANGED <<use_ai_enhancement, request, report, ai_calls, reconciled_before,
                   dup_args, kb_file, kb_vars, fn_vars>>

NextDup == CallIsDuplicateViolation

SpecDup == InitDup /\ [][NextDup]_vars

-----------------------------------------------------------------------------
(* Direct calls of _combine_analyses on arbitrary arguments.               *)

\* violation candidates of a secondary result
MaxCombineViolations == 1

\* a dict that holds the key with one of the values, or does not hold it
OptionalKey(key, values) == {[k \in {} |-> 0]} \cup {[k \in {key} |-> v] : v \in values}

AppointOfficer == <<"A","p","p","o","i","n","t"," ","a"," ","d","a","t","a"," ","p","r","o","t","e","c","t","i","o","n"," ","o","f","f","i","c","e","r">>

AppointOfficerRecommendation ==
    [priority |-> "HIGH", action |-> AppointOfficer,
     description |-> "Name the accountable officer", section_reference |-> "Section 21"]

\* recommendations of the external model: none, one, the same one twice, one
\* without an action, and one that words a baseline recommendation in lower
\* case followed by another one
CombineAiRecommendations ==
    {<< >>,
     <<AppointOfficerRecommendation>>,
     <<AppointOfficerRecommendation, AppointOfficerRecommendation>>,
     <<[priority |-> "LOW", description |-> "Review the retention schedule"]>>,
     <<[priority |-> "HIGH", action |-> Lower(KbImplementSecurity)],
       AppointOfficerRecommendation>>}

\* secondary results as the external model may word them: each of the four
\* keys present or missing
RawSecondaries ==
    {v @@ r @@ a @@ i :
        v \in OptionalKey("ai_violations", SeqsUpTo(AiCandidates, MaxCombineViolations)),
        r \in OptionalKey("ai_recommendations", CombineAiRecommendations),
        a \in OptionalKey("ai_risk_assessment", AiRiskAssessments),
        i \in OptionalKey("ai_insights", {AiInsights})}

\* the secondary results _combine_analyses may be called with: as worded, as
\* _parse_ai_response returns them, and as the failure paths build them
CombineSecondaries ==
    RawSecondaries
    \cup {_parse_ai_response([kind |-> "json", parsed |-> body]) : body \in RawSecondaries}
    \cup {_get_mistral_text_analysis([kind |-> "error"]),
          _get_mistral_text_analysis([kind |-> "text"])}

SecurityBaselineViolation ==
    [section |-> KbSection20,
     title |-> "Security of Personal Information",
     violation |-> InadequateSecurityMeasures,
     severity |-> "HIGH",
     description |-> "Document does not demonstrate adequate security measures for personal information",
     dpa_reference |-> Ellipsis]

\* baseline analyses in the shape get_comprehensive_analysis returns, with
\* every risk level
CombineBaselines ==
    {[compliance_status |-> IF violations = << >> THEN "COMPLIANT" ELSE "NON-COMPLIANT",
      risk_level |-> risk_levels[b],
      violations |-> violations,
      recommendations |-> generate_recommendations(violations, << >>),
      analysis_metadata |-> [knowledge_base_version |-> "v2",
                             analysis_date |-> "now",
                             sections_analyzed |-> 0,
                             total_pii_found |-> 0]] :
        b \in 1..Len(risk_levels),
        violations \in {<< >>, <<SecurityBaselineViolation>>}}

InitCombine ==
    /\ use_ai_enhancement = TRUE
    /\ pc = "idle"
    /\ request = NoRequest
    /\ report = NoReport
    /\ ai_calls = 0
    /\ reconciled_before = FALSE
    /\ dup_args = << >>
    /\ dup_result = FALSE
    /\ kb_file = SampleKbFile
    /\ sections = SampleSections
    /\ definitions = SampleDefinitions
    /\ penalties = SamplePenalties
    /\ search_index = SampleSearchIndex
    /\ fn_args \in {[baseline_analysis |-> b, ai_analysis |-> a] :
                       b \in CombineBaselines, a \in CombineSecondaries}
    /\ fn_result = NoCall

\* _combine_analyses(baseline_analysis, ai_analysis, text, pii_data); the last
\* two parameters are not read
CallCombineAnalyses ==
    /\ pc = "idle"
    /\ fn_result' = IF _combine_analyses_raises(fn_args.ai_analysis)
                    THEN [raised |-> TRUE]
                    ELSE [raised |-> FALSE,
                          value |-> _combine_analyses(fn_args.baseline_analysis,
                                                      fn_args.ai_analysis)]
    /\ pc' = "combine_returned"
    /\ UNCHANGED <<use_ai_enhancement, request, report, ai_calls, reconciled_before,
                   dup_args, dup_result, kb_file, kb_vars, fn_args>>

NextCombine == CallCombineAnalyses

SpecCombine == InitCombine /\ [][NextCombine]_vars

-----------------------------------------------------------------------------
(* Direct calls of _generate_recommendations on arbitrary arguments.       *)

\* violations of a list
MaxRecViolations == 3

\* detected items of each kind
MaxRecItems == 1

\* the violation types the rule set produces
RecViolationTypes ==
    {unauthorized_processing, inadequate_spi_protection, lack_of_transparency,
     excessive_processing, inadequate_security}

\* violation lists in any order, with repeated types
RecViolationLists ==
    SeqsUpTo({[violation_type |-> t] : t \in RecViolationTypes}, MaxRecViolations)

RecItemSummaries ==
    {categorize_pii(detect_pii(AnalyzerResults(nr, ns))) :
        nr \in 0..MaxRecItems, ns \in 0..MaxRecItems}

InitRec ==
    /\ use_ai_enhancement = TRUE
    /\ pc = "idle"
    /\ request = NoRequest
    /\ report = NoReport
    /\ ai_calls = 0
    /\ reconciled_before = FALSE
    /\ dup_args = << >>
    /\ dup_result = FALSE
    /\ kb_file = SampleKbFile
    /\ sections = SampleSections
    /\ definitions = SampleDefinitions
    /\ penalties = SamplePenalties
    /\ search_index = SampleSearchIndex
    /\ fn_args \in {[violations |-> violations, pii_categorized |-> pii_categorized] :
                       violations \in RecViolationLists,
                       pii_categorized \in RecItemSummaries}
    /\ fn_result = NoCall

CallGenerateRecommendations ==
    /\ pc = "idle"
    /\ fn_result' = [raised |-> FALSE,
                     value |-> _generate_recommendations(fn_args.violations,
                                                         fn_args.pii_categorized)]
    /\ pc' = "rec_returned"
    /\ UNCHANGED <<use_ai_enhancement, request, report, ai_calls, reconciled_before,
                   dup_args, dup_result, kb_file, kb_vars, fn_args>>

NextRec == CallGenerateRecommendations

SpecRec == InitRec /\ [][NextRec]_vars

-----------------------------------------------------------------------------
(* The knowledge base: construction and lookups.                           *)

KbTopLevelKeys == {"sections", "definitions", "penalties", "search_index"}

\* What may be on disk when EnhancedDPAKnowledgeV2 is constructed: no file, a
\* file that is not JSON, a JSON file that holds a list, and JSON objects that
\* hold any of the top-level keys.
KbFiles ==
    {[kind |-> "missing"], [kind |-> "corrupt"], [kind |-> "json", value |-> PyList(<< >>)]}
    \cup {[kind |-> "json", value |-> PyDict([k \in keys |-> SampleKnowledgeBase[k]])] :
             keys \in SUBSET KbTopLevelKeys}

\* EnhancedDPAKnowledgeV2.__init__ has set every field to {} and calls
\* load_knowledge_base.
InitKb ==
    /\ use_ai_enhancement = TRUE
    /\ pc = "constructing"
    /\ request = NoRequest
    /\ report = NoReport
    /\ ai_calls = 0
    /\ reconciled_before = FALSE
    /\ dup_args = << >>
    /\ dup_result = FALSE
    /\ kb_file \in KbFiles
    /\ sections = EmptyDict
    /\ definitions = EmptyDict
    /\ penalties = EmptyDict
    /\ search_index = EmptyDict
    /\ fn_args = NoCall
    /\ fn_result = NoCall

\* json.load raises on a file that is not JSON, and knowledge_base.get on a
\* JSON value that is not an object; neither is caught
load_knowledge_base_raises ==
    /\ kb_file.kind # "missing"
    /\ kb_file.kind = "corrupt" \/ kb_file.value.py # "dict"

load_knowledge_base ==
    /\ pc = "constructing"
    /\ IF kb_file.kind = "missing"
       THEN /\ pc' = "loaded"
            /\ UNCHANGED kb_vars
       ELSE IF load_knowledge_base_raises
            THEN /\ pc' = "load_raised"
                 /\ UNCHANGED kb_vars
            ELSE /\ pc' = "loaded"
                 /\ sections' = Get(kb_file.value.v, "sections", EmptyDict)
                 /\ definitions' = Get(kb_file.value.v, "definitions", EmptyDict)
                 /\ penalties' = Get(kb_file.value.v, "penalties", EmptyDict)
                 /\ search_index' = Get(kb_file.value.v, "search_index", EmptyDict)
    /\ UNCHANGED <<use_ai_enhancement, request, report, ai_calls, reconciled_before,
                   dup_args, dup_result, kb_file, fn_vars>>

SectionNumbers ==
    {PyInt(12), PyStr(Key12), PyInt(20), PyInt(25), PyStr(Key25), PyInt(99), PyStr(Key99)}

TermPersonal == <<"P","e","r","s","o","n","a","l">>

TermExplicitConsent == <<"e","x","p","l","i","c","i","t"," ","c","o","n","s","e","n","t">>

Terms == {KeywordConsentUpper, TermPersonal, TermExplicitConsent, KeywordAbsent}

Keywords == {KeywordConsentUpper, KeywordSecurity, KeywordData, KeywordSensitive, KeywordAbsent}

Limits == {1, 2, DefaultLimit}

\* the part of a lookup that every lookup leaves alone
LookupFrame ==
    UNCHANGED <<use_ai_enhancement, request, report, ai_calls, reconciled_before,
                dup_args, dup_result, kb_file, kb_vars>>

GetSection(section_number) ==
    /\ pc = "loaded"
    /\ fn_args' = [fn |-> "get_section", section_number |-> section_number]
    /\ fn_result' = [raised |-> FALSE, value |-> get_section(section_number)]
    /\ pc' = "looked_up"
    /\ LookupFrame

GetDefinition(term) ==
    /\ pc = "loaded"
    /\ fn_args' = [fn |-> "get_definition", term |-> term]
    /\ fn_result' = [raised |-> FALSE, value |-> get_definition(term)]
    /\ pc' = "looked_up"
    /\ LookupFrame

GetPenaltyInfo(section_number) ==
    /\ pc = "loaded"
    /\ fn_args' = [fn |-> "get_penalty_info", section_number |-> section_number]
    /\ fn_result' = [raised |-> FALSE, value |-> get_penalty_info(section_number)]
    /\ pc' = "looked_up"
    /\ LookupFrame

SearchContent(keyword, limit) ==
    /\ pc = "loaded"
    /\ fn_args' = [fn |-> "search_content", keyword |-> keyword, limit |-> limit]
    /\ fn_result' = [raised |-> FALSE, value |-> search_content(keyword, limit)]
    /\ pc' = "looked_up"
    /\ LookupFrame

\* the caller takes the result of the lookup
ReturnLookup ==
    /\ pc = "looked_up"
    /\ fn_args' = NoCall
    /\ fn_result' = NoCall
    /\ pc' = "loaded"
    /\ LookupFrame

NextKb ==
    \/ load_knowledge_base
    \/ \E section_number \in SectionNumbers : GetSection(section_number)
    \/ \E term \in Terms : GetDefinition(term)
    \/ \E section_number \in SectionNumbers : GetPenaltyInfo(section_number)
    \/ \E keyword \in Keywords, limit \in Limits : SearchContent(keyword, limit)
    \/ ReturnLookup

SpecKb == InitKb /\ [][NextKb]_vars

-----------------------------------------------------------------------------
(* Direct calls of generate_summary on reports whose fields may be missing. *)

\* the fields generate_summary reads with a default
SummaryFields ==
    {"document_name", "compliance_status", "risk_level", "violations", "recommendations",
     "pii_summary"}

\* a record without some of its fields
Without(record, fields) == [k \in (DOMAIN record) \ fields |-> record[k]]

\* an answer of the external model without the key ai_insights
BodyWithoutInsights ==
    [ai_violations |-> <<[section |-> KbSection20, violation_type |-> InadequateSecurityMeasures,
                          severity |-> "HIGH"]>>,
     ai_recommendations |-> << >>,
     ai_risk_assessment |-> PyDict([overall_risk |-> "HIGH", risk_factors |-> << >>])]

\* reports as analyze_document returns them: rule-based, reconciled with the
\* insights of the external model, reconciled with an answer that held none,
\* and reconciled after the external model failed
CompleteReports ==
    {analyze_document(FALSE, "", AnalyzerResults(1, 1), "doc", NotCalled),
     analyze_document(TRUE, "", AnalyzerResults(1, 1), "doc",
                      [kind |-> "json",
                       parsed |-> [ai_insights |-> AiInsights] @@ BodyWithoutInsights]),
     analyze_document(TRUE, "", AnalyzerResults(1, 1), "doc",
                      [kind |-> "json", parsed |-> BodyWithoutInsights]),
     analyze_document(TRUE, "", AnalyzerResults(1, 1), "doc", [kind |-> "error"])}

\* what pii_summary may hold instead of a record
NotARecord == {None, PyList(<< >>)}

\* the reports generate_summary is called with: any of the fields missing,
\* or pii_summary no record
SummaryReports ==
    {Without(r, missing) : r \in CompleteReports, missing \in SUBSET SummaryFields}
    \cup {[Without(r, missing) EXCEPT !.pii_summary = p] :
             r \in CompleteReports, missing \in SUBSET (SummaryFields \ {"pii_summary"}),
             p \in NotARecord}

InitSummary ==
    /\ use_ai_enhancement = TRUE
    /\ pc = "idle"
    /\ request = NoRequest
    /\ report = NoReport
    /\ ai_calls = 0
    /\ reconciled_before = FALSE
    /\ dup_args = << >>
    /\ dup_result = FALSE
    /\ kb_file = SampleKbFile
    /\ sections = SampleSections
    /\ definitions = SampleDefinitions
    /\ penalties = SamplePenalties
    /\ search_index = SampleSearchIndex
    /\ fn_args \in {[compliance_report |-> r] : r \in SummaryReports}
    /\ fn_result = NoCall

CallGenerateSummary ==
    /\ pc = "idle"
    /\ fn_result' = IF generate_summary_raises(fn_args.compliance_report)
                    THEN [raised |-> TRUE]
                    ELSE [raised |-> FALSE,
                          value |-> generate_summary(fn_args.compliance_report)]
    /\ pc' = "summary_returned"
    /\ UNCHANGED <<use_ai_enhancement, request, report, ai_calls, reconciled_before,
                   dup_args, dup_result, kb_file, kb_vars, fn_args>>

NextSummary == CallGenerateSummary

SpecSummary == InitSummary /\ [][NextSummary]_vars

-----------------------------------------------------------------------------

(* Direct calls of categorize_pii.                                          *)

\* items of a call
MaxCatItems == 3

\* entity types of the items: regular, sensitive by category, and sensitive
\* for the detector only
CatEntityTypes == {"PERSON", "HEALTH_INFO", "PH_TIN", "PH_UMID"}

\* item lists with every combination of type and flag; an item is identified
\* by its offset
CatItemLists ==
    UNION {[1..n -> CatEntityTypes \X BOOLEAN] : n \in 0..MaxCatItems}

CatItems(kinds) ==
    [i \in 1..Len(kinds) |->
        [entity_type |-> kinds[i][1], text |-> i, start |-> i, is_sensitive |-> kinds[i][2]]]

InitCat ==
    /\ use_ai_enhancement = TRUE
    /\ pc = "idle"
    /\ request = NoRequest
    /\ report = NoReport
    /\ ai_calls = 0
    /\ reconciled_before = FALSE
    /\ dup_args = << >>
    /\ dup_result = FALSE
    /\ kb_file = SampleKbFile
    /\ sections = SampleSections
    /\ definitions = SampleDefinitions
    /\ penalties = SamplePenalties
    /\ search_index = SampleSearchIndex
    /\ fn_args \in {[pii_results |-> CatItems(kinds)] : kinds \in CatItemLists}
    /\ fn_result = NoCall

CallCategorizePii ==
    /\ pc = "idle"
    /\ fn_result' = [raised |-> FALSE, value |-> categorize_pii(fn_args.pii_results)]
    /\ pc' = "cat_returned"
    /\ UNCHANGED <<use_ai_enhancement, request, report, ai_calls, reconciled_before,
                   dup_args, dup_result, kb_file, kb_vars, fn_args>>

NextCat == CallCategorizePii

SpecCat == InitCat /\ [][NextCat]_vars

-----------------------------------------------------------------------------

\* os.getenv("MISTRAL_API_KEY") after load_dotenv(): None when the variable
\* is set nowhere, otherwise its string
ApiKeyUnset == None

ApiKeyEmpty == << >>

ApiKeySet == <<"k", "e", "y">>

ApiKeys == {ApiKeyUnset, ApiKeyEmpty, ApiKeySet}

\* `not os.getenv("MISTRAL_API_KEY")`: None and the empty string are false
ApiKeyMissing(api_key) == api_key = None \/ api_key = << >>

MaxStartupItems == 1

\* The process before dpa_compliance_checker is imported: no checker exists
\* yet, so the flag is not read before CreateChecker sets it.
InitStartup ==
    /\ use_ai_enhancement = FALSE
    /\ pc = "importing"
    /\ request = NoRequest
    /\ report = NoReport
    /\ ai_calls = 0
    /\ reconciled_before = FALSE
    /\ dup_args = << >>
    /\ dup_result = FALSE
    /\ kb_file = SampleKbFile
    /\ sections = SampleSections
    /\ definitions = SampleDefinitions
    /\ penalties = SamplePenalties
    /\ search_index = SampleSearchIndex
    /\ fn_args \in {[MISTRAL_API_KEY |-> api_key] : api_key \in ApiKeys}
    /\ fn_result = NoCall

\* `from mistral_analyzer import mistral_analyzer` in dpa_compliance_checker:
\* the module body builds the global MistralDPAAnalyzer(), whose __init__
\* raises ValueError when the key is missing; the exception leaves the import.
ImportChecker ==
    /\ pc = "importing"
    /\ IF ApiKeyMissing(fn_args.MISTRAL_API_KEY)
       THEN /\ pc' = "import_raised"
            /\ fn_result' = [raised |-> TRUE]
       ELSE /\ pc' = "imported"
            /\ fn_result' = [raised |-> FALSE]
    /\ UNCHANGED <<use_ai_enhancement, request, report, ai_calls, reconciled_before,
                   dup_args, dup_result, kb_file, kb_vars, fn_args>>

\* DPAComplianceChecker.__init__
CreateChecker ==
    /\ pc = "imported"
    /\ pc' = "idle"
    /\ use_ai_enhancement' = TRUE
    /\ UNCHANGED <<request, report, ai_calls, reconciled_before, dup_args, dup_result,
                   kb_file, kb_vars, fn_vars>>

NextStartup ==
    \/ ImportChecker
    \/ CreateChecker
    \/ \E enabled \in BOOLEAN : set_ai_enhancement(enabled)
    \/ /\ pc = "idle"
       /\ \E text \in DocumentTexts, n \in 0..MaxStartupItems, ns \in 0..MaxStartupItems,
             document_name \in DocumentNames,
             outcome \in (IF use_ai_enhancement THEN ExternalModelOutcomes ELSE {NotCalled}) :
             /\ ns <= n
             /\ AnalyzeDocument(text, n - ns, ns, document_name, outcome)
    \/ ReturnReport

SpecStartup == InitStartup /\ [][NextStartup]_vars

(* Properties.                                                             *)

Returned == pc = "returned"

\* the report comes from _traditional_analysis
IsTraditionalReport == Returned /\ "analysis_type" \in DOMAIN report

\* the report comes from _combine_analyses
IsReconciledReport == Returned /\ "ai_insights" \in DOMAIN report

AnySeverity(violations, severity) ==
    \E i \in 1..Len(violations) : violations[i].severity = severity

\* some insecurity keyword pattern matches the text
MatchesInsecurityPattern(text) ==
    \E k \in 1..Len(unencrypted_patterns) : RegexSearch(unencrypted_patterns[k], text)

TypeSet(violations) == {violations[i].violation_type : i \in 1..Len(violations)}

\* C1: in every returned report, traditional or reconciled, compliance_status
\* is NON-COMPLIANT iff the violations list is non-empty, COMPLIANT otherwise.
C1_StatusIffViolations ==
    Returned =>
        /\ report.compliance_status = "NON-COMPLIANT" <=> report.violations # << >>
        /\ report.compliance_status = "COMPLIANT" <=> report.violations = << >>

\* C1 witness: a reconciled report whose only violation was merged from the
\* secondary result (the baseline found none), and which is NON-COMPLIANT.
C1_Witness ==
    /\ IsReconciledReport
    /\ Len(report.violations) = 1
    /\ Get(report.violations[1], "source", "") = "mistral_ai"
    /\ report.compliance_status = "NON-COMPLIANT"

\* the external model was called and added nothing: it failed, or answered
\* with no violation and no risk level
ExternalModelContributesNothing ==
    /\ request.use_ai
    /\ \/ request.outcome.kind = "error"
       \/ /\ request.outcome.kind = "json"
          /\ Get(request.outcome.parsed, "ai_violations", << >>) = << >>
          /\ "ai_risk_assessment" \in DOMAIN request.outcome.parsed
          /\ "overall_risk" \notin DOMAIN request.outcome.parsed.ai_risk_assessment.v

\* C2: for empty text and an empty item list the report has zero violations,
\* risk_level LOW and status COMPLIANT, with AI enhancement disabled, enabled
\* with the external model contributing nothing, or enabled with it failing.
C2_EmptyInputIsCompliant ==
    (/\ Returned
     /\ request.text = TextEmpty
     /\ request.results = << >>
     /\ ~request.use_ai \/ ExternalModelContributesNothing)
    => /\ report.violations = << >>
       /\ report.risk_level = "LOW"
       /\ report.compliance_status = "COMPLIANT"

\* the verdict of a report: sections and severities of its violations in
\* order, risk level and status
Verdict(r) ==
    [violations |-> [i \in 1..Len(r.violations) |->
                        <<r.violations[i].section, r.violations[i].severity>>],
     risk_level |-> r.risk_level,
     compliance_status |-> r.compliance_status]

\* C3: when the external-model call fails, the returned report has the same
\* violations, risk_level and compliance_status as the analysis of the same
\* text and items with AI enhancement disabled.
C3_FailureGivesRuleBasedResult ==
    (Returned /\ request.use_ai /\ request.outcome.kind = "error")
    => Verdict(report) =
       Verdict(analyze_document(FALSE, request.text, request.results,
                                request.document_name, NotCalled))

\* C4: the rule-based evaluator emits exactly the violation types whose
\* trigger holds, each with its severity and section: no rule hides another.
C4_AllRulesEvaluated ==
    IsTraditionalReport =>
        LET types == TypeSet(report.violations)
            total == Len(request.results)
            sensitive == report.pii_summary.sensitive_count
            no_consent == report.consent_indicators = << >>
            no_purpose == report.purpose_indicators = << >>
        IN  /\ unauthorized_processing \in types <=> (total > 0 /\ no_consent)
            /\ inadequate_spi_protection \in types <=> sensitive > 0
            /\ lack_of_transparency \in types <=> (total > 0 /\ no_purpose)
            /\ excessive_processing \in types <=> total > 10
            /\ inadequate_security \in types <=> MatchesInsecurityPattern(request.text)
            /\ \A i \in 1..Len(report.violations) :
                  LET v == report.violations[i]
                  IN  \/ /\ v.violation_type = unauthorized_processing
                         /\ v.severity = "HIGH" /\ v.section = Section12
                      \/ /\ v.violation_type = inadequate_spi_protection
                         /\ v.severity = "CRITICAL" /\ v.section = Section13
                      \/ /\ v.violation_type = lack_of_transparency
                         /\ v.severity = "MEDIUM" /\ v.section = Section11
                      \/ /\ v.violation_type = excessive_processing
                         /\ v.severity = "MEDIUM" /\ v.section = Section11
                      \/ /\ v.violation_type = inadequate_security
                         /\ v.severity = "HIGH" /\ v.section = Section20

\* C4 witness: three sensitive items, no consent and no purpose language:
\* three rules fire together and the risk level is CRITICAL.
C4_Witness ==
    /\ IsTraditionalReport
    /\ Len(request.results) = 3
    /\ report.pii_summary.sensitive_count = 3
    /\ report.consent_indicators = << >>
    /\ report.purpose_indicators = << >>
    /\ TypeSet(report.violations) =
           {unauthorized_processing, inadequate_spi_protection, lack_of_transparency}
    /\ report.risk_level = "CRITICAL"

\* C5: whenever the item list holds a sensitive item, the report holds a
\* CRITICAL violation for Section 13 and risk_level is CRITICAL, with AI
\* enhancement enabled or disabled.
C5_SensitiveItemIsCritical ==
    (Returned /\ \E i \in 1..Len(request.results) :
                    IsSensitivePii(detect_pii(request.results)[i]))
    => /\ \E i \in 1..Len(report.violations) :
             /\ report.violations[i].severity = "CRITICAL"
             /\ report.violations[i].section \in {Section13, KbSection13}
       /\ report.risk_level = "CRITICAL"

\* C6: the risk level of a rule-based report is the first match of: CRITICAL
\* if a violation is CRITICAL or sensitive_count > 5; HIGH if a violation is
\* HIGH or the item count > 10; MEDIUM if any violation exists; else LOW.
\* With 11 regular items, consent and purpose language and no insecurity
\* keyword the violations are [excessive_processing] and the risk is HIGH.
C6_RiskPrecedence ==
    IsTraditionalReport =>
        LET total == Len(request.results)
            sensitive == report.pii_summary.sensitive_count
        IN  /\ report.risk_level =
                  IF AnySeverity(report.violations, "CRITICAL") \/ sensitive > 5
                  THEN "CRITICAL"
                  ELSE IF AnySeverity(report.violations, "HIGH") \/ total > 10
                       THEN "HIGH"
                       ELSE IF report.violations # << >> THEN "MEDIUM" ELSE "LOW"
            /\ (/\ total = 11
                /\ sensitive = 0
                /\ report.consent_indicators # << >>
                /\ report.purpose_indicators # << >>
                /\ ~MatchesInsecurityPattern(request.text))
               => /\ Len(report.violations) = 1
                  /\ report.violations[1].violation_type = excessive_processing
                  /\ report.risk_level = "HIGH"

\* C6 witness: the rule-based report of 11 regular items with consent and
\* purpose language, whose only violation is MEDIUM and whose risk is HIGH.
C6_Witness ==
    /\ IsTraditionalReport
    /\ Len(request.results) = 11
    /\ report.pii_summary.sensitive_count = 0
    /\ report.consent_indicators # << >>
    /\ report.purpose_indicators # << >>
    /\ TypeSet(report.violations) = {excessive_processing}
    /\ ~AnySeverity(report.violations, "HIGH")
    /\ report.risk_level = "HIGH"

\* C7: in every returned report the risk level is CRITICAL if a violation is
\* CRITICAL, at least HIGH if a violation is HIGH, and at least MEDIUM if the
\* violations list is non-empty.
C7_RiskCoversViolations ==
    Returned =>
        /\ AnySeverity(report.violations, "CRITICAL") => report.risk_level = "CRITICAL"
        /\ AnySeverity(report.violations, "HIGH") => report.risk_level \in {"HIGH", "CRITICAL"}
        /\ report.violations # << >> => report.risk_level # "LOW"

FixedOrder ==
    <<unauthorized_processing, inadequate_spi_protection, lack_of_transparency,
      excessive_processing, inadequate_security>>

OrderIndex(violation_type) ==
    CHOOSE i \in 1..Len(FixedOrder) : FixedOrder[i] = violation_type

\* C8: the rule-based violation list is a subsequence without repeats of the
\* fixed rule order, and inadequate_security appears exactly once when one or
\* several insecurity patterns match and not at all when none matches.
C8_FixedOrderNoRepeats ==
    IsTraditionalReport =>
        LET vs == report.violations
            security == {i \in 1..Len(vs) : vs[i].violation_type = inadequate_security}
        IN  /\ \A i \in 1..Len(vs) :
                  \E k \in 1..Len(FixedOrder) : FixedOrder[k] = vs[i].violation_type
            /\ \A i, j \in 1..Len(vs) :
                  i < j => OrderIndex(vs[i].violation_type) < OrderIndex(vs[j].violation_type)
            /\ Cardinality(security) =
                  IF MatchesInsecurityPattern(request.text) THEN 1 ELSE 0

\* C8 witness: a text matched by two insecurity patterns, reported once, after
\* another violation.
C8_Witness ==
    /\ IsTraditionalReport
    /\ Cardinality({k \in 1..Len(unencrypted_patterns) :
                       RegexSearch(unencrypted_patterns[k], request.text)}) >= 2
    /\ Len(report.violations) >= 2
    /\ Cardinality({i \in 1..Len(report.violations) :
                       report.violations[i].violation_type = inadequate_security}) = 1

\* a is a substring of b or b is a substring of a
EitherContains(a, b) == Contains(a, b) \/ Contains(b, a)

\* C9: _is_duplicate_violation returns true iff some baseline violation's
\* lower-cased section contains or is contained in the secondary's, and its
\* lower-cased violation contains or is contained in the secondary's
\* violation_type, a missing field counting as the empty string; so
\* ("Section 12", "unauthorized_processing") is a duplicate of a baseline
\* violation with the same section and violation.
C9_DuplicateIffContainment ==
    pc = "dup_returned" =>
        LET a == dup_args.ai_violation
            bs == dup_args.baseline_violations
            a_section == Lower(IF "section" \in DOMAIN a THEN a.section ELSE << >>)
            a_type == Lower(IF "violation_type" \in DOMAIN a THEN a.violation_type ELSE << >>)
        IN  /\ dup_result <=>
                  \E k \in 1..Len(bs) :
                      /\ EitherContains(
                             Lower(IF "section" \in DOMAIN bs[k] THEN bs[k].section ELSE << >>),
                             a_section)
                      /\ EitherContains(
                             Lower(IF "violation" \in DOMAIN bs[k] THEN bs[k].violation ELSE << >>),
                             a_type)
            /\ (/\ a = [section |-> Section12, violation_type |-> unauthorized_processing]
                /\ \E k \in 1..Len(bs) :
                      bs[k] = [section |-> Section12, violation |-> unauthorized_processing])
               => dup_result

\* C9 witness: the call with ("Section 12", "unauthorized_processing") against
\* a baseline that holds the same section and violation after another entry.
C9_Witness ==
    /\ pc = "dup_returned"
    /\ dup_args.ai_violation =
           [section |-> Section12, violation_type |-> unauthorized_processing]
    /\ Len(dup_args.baseline_violations) = 2
    /\ dup_args.baseline_violations[2] =
           [section |-> Section12, violation |-> unauthorized_processing]
    /\ dup_result

\* C10: the merged list has exactly as many entries as the baseline has
\* violations plus the secondary candidates that are not duplicates of a
\* baseline violation, also when two candidates are identical.
C10_MergedCount ==
    IsReconciledReport =>
        LET baseline == check_violation(request.text, detect_pii(request.results))
            candidates == Get(_get_mistral_text_analysis(request.outcome), "ai_violations", << >>)
            fresh == {k \in 1..Len(candidates) :
                         ~_is_duplicate_violation(candidates[k], baseline)}
        IN  Len(report.violations) = Len(baseline) + Cardinality(fresh)

\* analyze_document or analyze_image_document has returned
AnyReturned == pc \in {"returned", "image_returned"}

\* the violation list of the baseline of the last request
BaselineOf(req) == check_violation(req.text, detect_pii(req.results))

\* the candidates the secondary result of the last request supplied
CandidatesOf(req) == Get(_get_mistral_text_analysis(req.outcome), "ai_violations", << >>)

\* the elements of seq at the indices in S, in the order of seq
SubSeqAt(seq, S) ==
    LET F[i \in 0..Len(seq)] ==
            IF i = 0 THEN << >>
            ELSE IF i \in S THEN Append(F[i - 1], seq[i]) ELSE F[i - 1]
    IN  F[Len(seq)]

\* C11: the merged violation list starts with the baseline violations, in
\* their order and unedited, followed by merged secondary violations in the
\* order the secondary result supplied them; every merged secondary violation
\* carries the source tag of the external model and no baseline violation does.
C11_BaselineFirstThenMerged ==
    IsReconciledReport =>
        LET baseline == BaselineOf(request)
            candidates == CandidatesOf(request)
            merged == report.violations
        IN  /\ Len(merged) >= Len(baseline)
            /\ SubSeq(merged, 1, Len(baseline)) = baseline
            /\ \A i \in 1..Len(baseline) : Get(merged[i], "source", "") # "mistral_ai"
            /\ \A i \in (Len(baseline) + 1)..Len(merged) :
                  Get(merged[i], "source", "") = "mistral_ai"
            /\ \E S \in SUBSET (1..Len(candidates)) :
                  SubSeq(merged, Len(baseline) + 1, Len(merged)) =
                      SubSeqAt([k \in 1..Len(candidates) |-> StandardViolation(candidates[k])], S)

\* C11 witness: a reconciled report with two baseline violations followed by
\* two different merged secondary violations.
C11_Witness ==
    /\ IsReconciledReport
    /\ Len(BaselineOf(request)) = 2
    /\ Len(report.violations) = 4
    /\ report.violations[3] # report.violations[4]
    /\ report.violations[3] = StandardViolation(CandidatesOf(request)[1])
    /\ report.violations[4] = StandardViolation(CandidatesOf(request)[2])

\* the place of a risk level in LOW < MEDIUM < HIGH < CRITICAL
LevelRank(level) ==
    IF level = "LOW" THEN 0
    ELSE IF level = "MEDIUM" THEN 1
    ELSE IF level = "HIGH" THEN 2
    ELSE 3

FourLevels == {"LOW", "MEDIUM", "HIGH", "CRITICAL"}

\* the higher of two risk levels
MaxLevel(b, s) == IF LevelRank(b) >= LevelRank(s) THEN b ELSE s

\* the secondary result supplies a risk level
SuppliesRisk(ai_analysis) ==
    /\ "ai_risk_assessment" \in DOMAIN ai_analysis
    /\ ai_analysis.ai_risk_assessment.py = "dict"
    /\ "overall_risk" \in DOMAIN ai_analysis.ai_risk_assessment.v

\* the same call with the two risk levels exchanged
SwappedRisk(baseline_analysis, ai_analysis) ==
    _combine_analyses(
        [baseline_analysis EXCEPT !.risk_level = ai_analysis.ai_risk_assessment.v.overall_risk],
        [ai_analysis EXCEPT !.ai_risk_assessment =
            PyDict([@.v EXCEPT !.overall_risk = baseline_analysis.risk_level])]).risk_level

C14_CombineNeverRaises ==
    pc = "combine_returned" => ~fn_result.raised

RequiredFields ==
    {"document_name", "analysis_date", "pii_summary", "violations", "recommendations",
     "compliance_status", "risk_level"}

RequiredCounts == {"total_pii_count", "sensitive_count", "regular_count"}

\* C15: every report that analyze_document (either mode) or
\* analyze_image_document (success path or failure path) returns holds the
\* fields document_name, analysis_date, pii_summary with its three counts,
\* violations, recommendations, compliance_status and risk_level.
C15_AllFieldsPresent ==
    AnyReturned =>
        /\ RequiredFields \subseteq DOMAIN report
        /\ RequiredCounts \subseteq DOMAIN report.pii_summary

\* C15 witness: the report of an image whose text was extracted and whose
\* analysis was reconciled, with the summary of its one detected item.
C15_Witness ==
    /\ pc = "image_returned"
    /\ request.extraction.kind = "text"
    /\ "ai_insights" \in DOMAIN report
    /\ report.analysis_metadata.has_image
    /\ report.pii_summary.total_pii_count = 1
    /\ RequiredFields \subseteq DOMAIN report

\* C16: in every report of analyze_document and analyze_image_document, on
\* every path, compliance_status is COMPLIANT or NON-COMPLIANT and risk_level
\* is one of LOW, MEDIUM, HIGH and CRITICAL.
C16_StatusAndRiskInRange ==
    AnyReturned =>
        /\ report.compliance_status \in {"COMPLIANT", "NON-COMPLIANT"}
        /\ report.risk_level \in FourLevels

\* the actions of a recommendation list
ActionsOf(recommendations) ==
    [i \in 1..Len(recommendations) |-> recommendations[i].action]

\* the types of the table that occur among the violations, in table order
PresentTypes(violations) ==
    SelectSeq(FixedOrder,
              LAMBDA t : \E i \in 1..Len(violations) : violations[i].violation_type = t)

\* C17: _generate_recommendations emits one recommendation for each distinct
\* violation_type among the violations, not one per violation, in the order
\* of the table whatever the order of the violations.
C17_OnePerTypeInTableOrder ==
    pc = "rec_returned" =>
        LET present == PresentTypes(fn_args.violations)
            actions == ActionsOf(fn_result.value)
            general == IF fn_args.pii_categorized.total_pii_count > 0 THEN 1 ELSE 0
            distinct == {fn_args.violations[i].violation_type :
                            i \in 1..Len(fn_args.violations)}
        IN  /\ Len(present) = Cardinality(distinct)
            /\ Len(actions) = Len(present) + general
            /\ \A i \in 1..Len(present) : <<actions[i]>> = ActionFor(present[i])

\* C17 witness: three violations of two types, out of table order, give two
\* recommendations in table order.
C17_Witness ==
    /\ pc = "rec_returned"
    /\ fn_args.violations = <<[violation_type |-> inadequate_security],
                              [violation_type |-> unauthorized_processing],
                              [violation_type |-> inadequate_security]>>
    /\ fn_args.pii_categorized.total_pii_count = 0
    /\ ActionsOf(fn_result.value) = <<ObtainProperConsent, ImplementSecurityMeasures>>

\* how often the general recommendation occurs in a list
GeneralCount(recommendations) ==
    Cardinality({i \in 1..Len(recommendations) :
                    recommendations[i].action = ConductPrivacyImpactAssessment})

\* C18: when a detected sensitive item exists, "Conduct privacy impact
\* assessment" is the last recommendation and occurs once, whichever
\* violations fired; when there are no detected items it is not generated.
C18_GeneralRecommendationLast ==
    pc = "rec_returned" =>
        LET recs == fn_result.value
        IN  /\ fn_args.pii_categorized.sensitive_count > 0 =>
                  /\ recs # << >>
                  /\ recs[Len(recs)].action = ConductPrivacyImpactAssessment
                  /\ GeneralCount(recs) = 1
            /\ fn_args.pii_categorized.total_pii_count = 0 => GeneralCount(recs) = 0

\* C18 witness: one sensitive item and three violations: the general
\* recommendation follows the three of the violations.
C18_Witness ==
    /\ pc = "rec_returned"
    /\ fn_args.pii_categorized.sensitive_count = 1
    /\ Len(PresentTypes(fn_args.violations)) = 3
    /\ Len(fn_result.value) = 4
    /\ fn_result.value[4].action = ConductPrivacyImpactAssessment

\* every field of the knowledge base is empty
KbIsEmpty ==
    /\ sections = EmptyDict
    /\ definitions = EmptyDict
    /\ penalties = EmptyDict
    /\ search_index = EmptyDict

\* the result of a lookup is the empty or absent value of its function
EmptyResult ==
    IF fn_args.fn = "get_definition" THEN fn_result.value = None
    ELSE IF fn_args.fn = "search_content" THEN fn_result.value = << >>
    ELSE IsEmptyDict(fn_result.value)

\* C19: with the data file missing or corrupt, loading completes with an
\* empty knowledge base, and get_section, get_definition, get_penalty_info and
\* search_content then return an empty or absent result without raising; with
\* a loaded knowledge base get_section of an unknown id returns the empty
\* section.
C19_KnowledgeBaseNeverFails ==
    /\ pc # "load_raised"
    /\ (kb_file.kind \in {"missing", "corrupt"} /\ pc # "constructing") => KbIsEmpty
    /\ (pc = "looked_up" /\ KbIsEmpty) => (~fn_result.raised /\ EmptyResult)
    /\ (pc = "looked_up" /\ fn_args.fn = "get_section"
        /\ ~HasKey(sections, Str(fn_args.section_number)))
       => (~fn_result.raised /\ IsEmptyDict(fn_result.value))

\* the knowledge base is as it was loaded
KbAsLoaded ==
    /\ sections = SampleSections
    /\ definitions = SampleDefinitions
    /\ penalties = SamplePenalties
    /\ search_index = SampleSearchIndex

\* the key of the section a violation's label names: "Section 12" and "12"
SectionKeyOf(label) ==
    IF Len(label) > Len(Key12) THEN SubSeq(label, Len(label) - 1, Len(label)) ELSE label

\* the excerpt of a section as a freshly loaded knowledge base holds it
FreshReference(label) ==
    Prefix(Get(ItemsGet(SampleSections, SectionKeyOf(label), EmptyDict), "content", << >>),
           DpaReferenceLength) \o Ellipsis

AddedItemTypes ==
    {RegularTypes[i] : i \in 1..Len(RegularTypes)} \cup {SensitiveTypes[i] : i \in 1..Len(SensitiveTypes)}

\* the analyzer results of the last request with one more item of a type
WithOneMore(results, entity_type) ==
    Append(results, [entity_type |-> entity_type, start |-> Len(results) + 1])

\* the risk level of the rule-based report of a text and analyzer results
RuleBasedRisk(text, results) ==
    _traditional_analysis(text, "doc", categorize_pii(detect_pii(results)),
                          detect_consent_indicators(text),
                          detect_purpose_statements(text)).risk_level

\* C21: for a fixed text the risk_level of the rule-based report never gets
\* lower, under LOW < MEDIUM < HIGH < CRITICAL, when one more detected item,
\* sensitive or regular, is added to the item list.
C21_RiskMonotoneInItems ==
    (Returned /\ IsTraditionalReport) =>
        \A entity_type \in AddedItemTypes :
            LevelRank(RuleBasedRisk(request.text, WithOneMore(request.results, entity_type)))
                >= LevelRank(report.risk_level)

\* C21 witness: a rule-based report with ten items and risk_level MEDIUM whose
\* risk becomes HIGH with an eleventh regular item and CRITICAL with a
\* sensitive one.
C21_Witness ==
    /\ Returned
    /\ IsTraditionalReport
    /\ Len(request.results) = ExcessiveThreshold
    /\ report.risk_level = "MEDIUM"
    /\ RuleBasedRisk(request.text, WithOneMore(request.results, "PERSON")) = "HIGH"
    /\ RuleBasedRisk(request.text, WithOneMore(request.results, "HEALTH_INFO")) = "CRITICAL"

\* the defaults of the summary for the parts that are missing in a report
SummaryDefaultsHold(compliance_report, summary) ==
    /\ "document_name" \notin DOMAIN compliance_report => summary.document = "Unknown Document"
    /\ "compliance_status" \notin DOMAIN compliance_report => summary.status = "UNKNOWN"
    /\ "risk_level" \notin DOMAIN compliance_report => summary.risk_level = "UNKNOWN"
    /\ "violations" \notin DOMAIN compliance_report => summary.total_violations = 0
    /\ "recommendations" \notin DOMAIN compliance_report => summary.top_recommendations = << >>
    /\ ("pii_summary" \notin DOMAIN compliance_report
        \/ ~IsInstanceDict(Get(compliance_report, "pii_summary", EmptyDict)))
       => (summary.pii_found = 0 /\ summary.sensitive_pii_found = 0)

\* C22: generate_summary does not raise on a report in which document_name,
\* compliance_status, risk_level, violations, recommendations or pii_summary is
\* missing or pii_summary is no record, and returns a summary with the
\* defaults "Unknown Document", "UNKNOWN", "UNKNOWN", 0 violations and pii
\* counts 0 for the missing parts.
C22_SummaryNeverRaises ==
    pc = "summary_returned" =>
        /\ ~fn_result.raised
        /\ SummaryDefaultsHold(fn_args.compliance_report, fn_result.value)

\* the lower-cased characters of the titles of the sample sections
LowerTitle(title) ==
    IF title = "General Data Privacy Principles"
        THEN <<"g","e","n","e","r","a","l"," ","d","a","t","a"," ","p","r","i","v","a","c","y"," ","p","r","i","n","c","i","p","l","e","s">>
    ELSE IF title = "Criteria for Lawful Processing of Personal Information"
        THEN <<"c","r","i","t","e","r","i","a"," ","f","o","r"," ","l","a","w","f","u","l"," ","p","r","o","c","e","s","s","i","n","g"," ","o","f"," ","p","e","r","s","o","n","a","l"," ","i","n","f","o","r","m","a","t","i","o","n">>
    ELSE IF title = "Sensitive Personal Information and Privileged Information"
        THEN <<"s","e","n","s","i","t","i","v","e"," ","p","e","r","s","o","n","a","l"," ","i","n","f","o","r","m","a","t","i","o","n"," ","a","n","d"," ","p","r","i","v","i","l","e","g","e","d"," ","i","n","f","o","r","m","a","t","i","o","n">>
    ELSE IF title = "Principle of Accountability"
        THEN <<"p","r","i","n","c","i","p","l","e"," ","o","f"," ","a","c","c","o","u","n","t","a","b","i","l","i","t","y">>
    ELSE << >>

\* the relevance of a section for a keyword as the ranking rule states it:
\* the term frequency in the content plus twice the term frequency in the title
RankedRelevance(section_key, keyword_lower) ==
    LET section_data == ItemsGet(sections, section_key, EmptyDict)
    IN  Count(Lower(Get(section_data, "content", << >>)), keyword_lower)
        + 2 * Count(LowerTitle(Get(section_data, "title", "")), keyword_lower)

\* the number a section id stands for
SectionId(section_key) ==
    LET DigitOf(c) == (CHOOSE d \in 1..Len(DigitChars) : DigitChars[d] = c) - 1
        F[i \in 0..Len(section_key)] ==
            IF i = 0 THEN 0 ELSE 10 * F[i - 1] + DigitOf(section_key[i])
    IN  F[Len(section_key)]

\* C23: the section results of search_content(keyword, limit) carry as
\* relevance the keyword's term frequency in the section content plus twice
\* its frequency in the title, are ranked by that relevance in descending
\* order, and results of equal relevance are in ascending order of section id.
C23_RankedByWeightedRelevance ==
    (pc = "looked_up" /\ fn_args.fn = "search_content") =>
        LET results == fn_result.value
            keyword_lower == Lower(fn_args.keyword)
            of_sections == {i \in 1..Len(results) : "section" \in DOMAIN results[i]}
            rank(i) == RankedRelevance(results[i].section, keyword_lower)
        IN  /\ \A i \in of_sections : Relevance(results[i]) = rank(i)
            /\ \A i, j \in of_sections :
                  i < j => \/ rank(i) > rank(j)
                           \/ /\ rank(i) = rank(j)
                              /\ SectionId(results[i].section) <= SectionId(results[j].section)

OtherInsights ==
    {AiInsights,
     PyDict([document_type |-> "contract", processing_purpose |-> "payroll",
             data_flow |-> "internal", compliance_gaps |-> << >>]),
     PyDict(<< >>),
     PyList(<< >>)}

\* C25: two secondary results that differ only in ai_insights give, with the
\* same baseline, merged reports with the same violations, recommendations,
\* risk_level and compliance_status, and each merged report holds the
\* insights of its secondary result unchanged in ai_insights.
C25_InsightsDoNotInfluenceVerdict ==
    (pc = "combine_returned" /\ ~fn_result.raised
     /\ "ai_insights" \in DOMAIN fn_args.ai_analysis) =>
        /\ fn_result.value.ai_insights = fn_args.ai_analysis.ai_insights
        /\ \A insights \in OtherInsights :
              LET other == _combine_analyses(
                               fn_args.baseline_analysis,
                               [fn_args.ai_analysis EXCEPT !.ai_insights = insights])
              IN  /\ other.violations = fn_result.value.violations
                  /\ other.recommendations = fn_result.value.recommendations
                  /\ other.risk_level = fn_result.value.risk_level
                  /\ other.compliance_status = fn_result.value.compliance_status
                  /\ other.ai_insights = insights

\* C25 witness: a secondary result with insights that name a compliance gap
\* was merged into a baseline of risk LOW without violations, and the merged
\* report is still LOW and COMPLIANT.
C25_Witness ==
    /\ pc = "combine_returned"
    /\ ~fn_result.raised
    /\ "ai_insights" \in DOMAIN fn_args.ai_analysis
    /\ fn_args.ai_analysis.ai_insights = AiInsights
    /\ fn_args.baseline_analysis.risk_level = "LOW"
    /\ fn_result.value.ai_insights = AiInsights
    /\ fn_result.value.risk_level = "LOW"
    /\ fn_result.value.compliance_status = "COMPLIANT"

\* the action of a recommendation in lower case, the empty string when the
\* recommendation has none
LowerAction(recommendation) == Lower(Get(recommendation, "action", EmptyString))

\* a secondary recommendation repeats one of the baseline's recommendations
RepeatsBaseline(ai_rec, baseline_recommendations) ==
    \E k \in 1..Len(baseline_recommendations) :
        EitherContains(LowerAction(ai_rec), LowerAction(baseline_recommendations[k]))

\* C26: reconciliation drops a secondary recommendation if and only if its
\* lower-cased action (the empty string when missing) is a substring of, or
\* contains, the lower-cased action of a recommendation of the baseline; the
\* other secondary recommendations follow the baseline's recommendations in
\* the merged list.
C26_RecommendationContainmentRule ==
    (pc = "combine_returned" /\ ~fn_result.raised) =>
        LET baseline_recommendations == fn_args.baseline_analysis.recommendations
            ai_recommendations == Get(fn_args.ai_analysis, "ai_recommendations", << >>)
            kept == SelectSeq(ai_recommendations,
                              LAMBDA r : ~RepeatsBaseline(r, baseline_recommendations))
        IN  fn_result.value.recommendations =
                baseline_recommendations
                \o [i \in 1..Len(kept) |-> StandardRecommendation(kept[i])]

\* C27: every violation of every report analyze_document returns has a
\* severity among LOW, MEDIUM, HIGH and CRITICAL, the violations merged from
\* the secondary result included, whatever severity that result supplied.
C27_SeveritiesInRange ==
    Returned =>
        \A i \in 1..Len(report.violations) :
            /\ "severity" \in DOMAIN report.violations[i]
            /\ report.violations[i].severity \in FourLevels

\* how often an item occurs in a list
Occurrences(list, item) == Cardinality({k \in 1..Len(list) : list[k] = item})

\* C28: categorize_pii puts every item in exactly one of sensitive_pii and
\* regular_pii, in sensitive_pii if and only if its is_sensitive flag is set
\* or its entity type is in the fixed sensitive-category set, and
\* total_pii_count = sensitive_count + regular_count = number of items.
C28_CategorizePartitions ==
    pc = "cat_returned" =>
        LET items == fn_args.pii_results
            result == fn_result.value
        IN  /\ \A i \in 1..Len(items) :
                  /\ Occurrences(result.sensitive_pii, items[i])
                     + Occurrences(result.regular_pii, items[i]) = 1
                  /\ Occurrences(result.sensitive_pii, items[i]) = 1
                     <=> (items[i].is_sensitive
                          \/ items[i].entity_type \in categorize_sensitive_types)
            /\ result.sensitive_count = Len(result.sensitive_pii)
            /\ result.regular_count = Len(result.regular_pii)
            /\ result.total_pii_count = result.sensitive_count + result.regular_count
            /\ result.total_pii_count = Len(items)

\* C28 witness: a regular item, an item sensitive by its category with the
\* flag unset, and an item sensitive by its flag alone are split one to two.
C28_Witness ==
    /\ pc = "cat_returned"
    /\ Len(fn_args.pii_results) = 3
    /\ fn_args.pii_results[1].entity_type = "PERSON" /\ ~fn_args.pii_results[1].is_sensitive
    /\ fn_args.pii_results[2].entity_type = "HEALTH_INFO" /\ ~fn_args.pii_results[2].is_sensitive
    /\ fn_args.pii_results[3].entity_type = "PH_UMID" /\ fn_args.pii_results[3].is_sensitive
    /\ fn_result.value.regular_pii = <<fn_args.pii_results[1]>>
    /\ fn_result.value.sensitive_pii = <<fn_args.pii_results[2], fn_args.pii_results[3]>>
    /\ fn_result.value.total_pii_count = 3

\* the places of the indexed keys that contain the term or are contained in it
MatchingKeys(term_lower) ==
    {k \in 1..Len(definitions) : EitherContains(definitions[k].key, term_lower)}

\* C29: get_definition(term) returns a definition if and only if some indexed
\* key contains the lower-cased term or is contained in it, and then the
\* definition of the first such key in the order of the knowledge base;
\* otherwise it returns the absent value.
C29_FirstMatchingDefinition ==
    (pc = "looked_up" /\ fn_args.fn = "get_definition") =>
        LET matching == MatchingKeys(Lower(fn_args.term))
        IN  /\ ~fn_result.raised
            /\ fn_result.value # None <=> matching # {}
            /\ matching # {} =>
                  fn_result.value =
                      definitions[CHOOSE k \in matching : \A other \in matching : k <= other].value

\* C29 witness: "Personal" is contained in the first two keys and the
\* definition of the first is returned.
C29_Witness ==
    /\ pc = "looked_up"
    /\ fn_args.fn = "get_definition"
    /\ fn_args.term = TermPersonal
    /\ definitions = SampleDefinitions
    /\ {1, 2} \subseteq MatchingKeys(Lower(fn_args.term))
    /\ fn_result.value = SampleDefinitions[1].value

\* C30: the rule-based baseline does not depend on the external model being
\* configured: with no API key the checker module is still imported, so that
\* a DPAComplianceChecker can be created and analyze_document can return the
\* rule-based report.
C30_BaselineWithoutApiKey ==
    ("MISTRAL_API_KEY" \in DOMAIN fn_args /\ ApiKeyMissing(fn_args.MISTRAL_API_KEY)) =>
        pc # "import_raised"

\* with a key the checker is created and analyses documents
C30_CheckerWithApiKey ==
    /\ "MISTRAL_API_KEY" \in DOMAIN fn_args
    /\ ~ApiKeyMissing(fn_args.MISTRAL_API_KEY)
    /\ pc = "returned"
    /\ "violations" \in DOMAIN report

====
